---- MODULE Spec2Model ----
(***************************************************************************)
(* Model of the Goquant matching engine (src/Goquant/src/matching_engine). *)
(* Orders are objects of a heap `orders` keyed by order id; price-level     *)
(* queues, the order index and the pending-stop lists hold order ids.       *)
(* Prices and quantities are exact decimals in the code; they are modelled  *)
(* as integers (a fixed scale).                                             *)
(***************************************************************************)
EXTENDS Integers, Sequences, FiniteSets, TLC

\* ------------------------------------------------------------------ bounds
MaxOrders == 3
MaxStops == 1
MaxPrice == 2
MaxQty == 2
MaxLoads == 1        \* load_snapshot calls in one behaviour
MaxConnections == 2  \* WebSocket connections accepted in one behaviour
MaxSuspended == 2    \* publish tasks suspended in a send at the same time
MaxCascadeOrders == 5  \* orders of a behaviour with a stop-trigger cascade
MaxCascadeStops == 2   \* stop orders among them
MaxBroadcastOrders == 2  \* orders of a behaviour with raising sends

\* --------------------------------------------------------------- constants
\* Optional[Decimal] = None (models.py: price / stop_price)
NoPrice == 0

Symbols == {"BTC-USDT", "ETH-USDT"}
OrderSymbols == {"BTC-USDT"}
Prices == 1..MaxPrice
Quantities == 1..MaxQty
Sides == {"buy", "sell"}
StopTypes == {"stop_loss", "stop_limit", "take_profit"}
PricedTypes == {"limit", "ioc", "fok"}

VARIABLES
    order_books,       \* symbol -> [bids, asks, order_index]
    stop_orders,       \* symbol -> sequence of pending stop order ids
    orders,            \* order id -> Order object (every order ever admitted)
    order_id_counter,
    trade_id_counter,
    trades,            \* every Trade created, in creation order
    exec,              \* per trade: the book around the fill (observation only)
    arrival,           \* order id -> sequence number of its add to a book
    scans,             \* per check_stop_orders call: price, pending, triggered
    events,            \* every publish task created, in creation order
    result,            \* what the last call returned
    snapshot,          \* the saved engine state file: <<>> or <<state_data>>
    loads,             \* number of load_snapshot calls so far
    connections,       \* WebSocketManager.connections: symbol -> set of connections
    subscribed,        \* connection -> the endpoint and symbol it connected to
    tasks,             \* the publish tasks started so far, one per event
    received,          \* connection -> the broadcast messages handed to it
    fees               \* enable_fees and the two rates given to the constructor

vars == <<order_books, stop_orders, orders, order_id_counter, trade_id_counter,
          trades, exec, arrival, scans, events, result, snapshot, loads,
          connections, subscribed, tasks, received, fees>>

\* the state of the WebSocket side: subscribers, running tasks, deliveries
delivery == <<connections, subscribed, tasks, received>>

\* ------------------------------------------------------------ small helpers
Min(a, b) == IF a <= b THEN a ELSE b

RECURSIVE SumSeq(_, _)
\* Sum of f[s[i]] over a sequence of keys
SumSeq(s, f) == IF s = <<>> THEN 0 ELSE f[Head(s)] + SumSeq(Tail(s), f)

RECURSIVE SumQty(_)
SumQty(ts) == IF ts = <<>> THEN 0 ELSE Head(ts).quantity + SumQty(Tail(ts))

Range(s) == {s[i] : i \in 1..Len(s)}

RemoveKey(f, k) == [x \in (DOMAIN f) \ {k} |-> f[x]]

RECURSIVE RemoveFirst(_, _)
\* list.remove / deque.remove: drop the first occurrence
RemoveFirst(s, x) ==
    IF s = <<>> THEN <<>>
    ELSE IF Head(s) = x THEN Tail(s)
    ELSE <<Head(s)>> \o RemoveFirst(Tail(s), x)

\* ---------------------------------------------------------------- models.py
NewOrder(id, in) ==
    [order_id |-> id,
     symbol |-> in.symbol,
     order_type |-> in.order_type,
     side |-> in.side,
     quantity |-> in.quantity,
     price |-> in.price,
     stop_price |-> in.stop_price,
     remaining_quantity |-> in.quantity,
     status |-> "new",
     is_triggered |-> FALSE]

\* Order.__post_init__: the orders that can be constructed
post_init(in) ==
    /\ in.quantity > 0
    /\ in.order_type \in PricedTypes => in.price # NoPrice /\ in.price > 0
    /\ in.order_type \in StopTypes => in.stop_price # NoPrice /\ in.stop_price > 0
    /\ in.order_type = "stop_limit" => in.price # NoPrice /\ in.price > 0

can_rest_on_book(o) == o.order_type = "limit"

\* an is_filled that holds of every order
is_filled_always(o) == TRUE

is_filled(o) == o.remaining_quantity = 0

update_status(o) ==
    IF o.remaining_quantity = 0 THEN [o EXCEPT !.status = "filled"]
    ELSE IF o.remaining_quantity < o.quantity THEN [o EXCEPT !.status = "partial"]
    ELSE o

\* ------------------------------------------------------------ order_book.py
EmptyBook == [bids |-> <<>>, asks |-> <<>>, order_index |-> <<>>]

NewLevel(p) == [price |-> p, orders |-> <<>>, total_quantity |-> 0]

\* add_order that puts the order at the head of the queue
LevelAddOrder_front(level, o) ==
    [level EXCEPT !.orders = <<o.order_id>> \o @,
                  !.total_quantity = @ + o.remaining_quantity]

\* PriceLevel.add_order
LevelAddOrder(level, o) ==
    [level EXCEPT !.orders = Append(@, o.order_id),
                  !.total_quantity = @ + o.remaining_quantity]

\* remove_order that drops the head of the queue, whichever order is named
LevelRemoveOrder_head(level, o) ==
    [level EXCEPT !.orders = Tail(@),
                  !.total_quantity = @ - o.remaining_quantity]

\* PriceLevel.remove_order
LevelRemoveOrder(level, o) ==
    [level EXCEPT !.orders = RemoveFirst(@, o.order_id),
                  !.total_quantity = @ - o.remaining_quantity]

\* update_quantity that forgets the old quantity
update_quantity_add(level, old_qty, new_qty) ==
    [level EXCEPT !.total_quantity = @ + new_qty]

\* PriceLevel.update_quantity
update_quantity(level, old_qty, new_qty) ==
    [level EXCEPT !.total_quantity = @ - old_qty + new_qty]

\* keys()[0] of a map sorted the wrong way round
FirstKey_reversed(levels, isBid) ==
    CHOOSE p \in DOMAIN levels :
        \A q \in DOMAIN levels : IF isBid THEN p <= q ELSE q <= p

\* SortedDict.keys()[0]: bids are keyed by -price, asks by price
FirstKey(levels, isBid) ==
    CHOOSE p \in DOMAIN levels :
        \A q \in DOMAIN levels : IF isBid THEN q <= p ELSE p <= q

RECURSIVE SortedKeys(_, _)
\* SortedDict iteration order
SortedKeys(levels, isBid) ==
    IF DOMAIN levels = {} THEN <<>>
    ELSE LET p == FirstKey(levels, isBid)
         IN <<p>> \o SortedKeys(RemoveKey(levels, p), isBid)

\* OrderBook.add_order
BookAddOrder(book, o) ==
    LET isBid == o.side = "buy"
        price_levels == IF isBid THEN book.bids ELSE book.asks
        withLevel == IF o.price \in DOMAIN price_levels THEN price_levels
                     ELSE (o.price :> NewLevel(o.price)) @@ price_levels
        newLevels == [withLevel EXCEPT ![o.price] = LevelAddOrder(@, o)]
        newIndex == (o.order_id :> o.side) @@ book.order_index
    IN IF isBid THEN [book EXCEPT !.bids = newLevels, !.order_index = newIndex]
       ELSE [book EXCEPT !.asks = newLevels, !.order_index = newIndex]

\* remove_order that leaves the index entry behind
BookRemoveOrder_keep_index(book, o) ==
    LET isBid == book.order_index[o.order_id] = "buy"
        price_levels == IF isBid THEN book.bids ELSE book.asks
        price_level == LevelRemoveOrder(price_levels[o.price], o)
        newLevels == IF price_level.orders = <<>> THEN RemoveKey(price_levels, o.price)
                     ELSE [price_levels EXCEPT ![o.price] = price_level]
    IN IF isBid THEN [book EXCEPT !.bids = newLevels]
       ELSE [book EXCEPT !.asks = newLevels]

\* OrderBook.remove_order (the caller has checked has_order)
BookRemoveOrder(book, o) ==
    LET side == book.order_index[o.order_id]
        isBid == side = "buy"
        price_levels == IF isBid THEN book.bids ELSE book.asks
        price_level == LevelRemoveOrder(price_levels[o.price], o)
        newLevels == IF price_level.orders = <<>> THEN RemoveKey(price_levels, o.price)
                     ELSE [price_levels EXCEPT ![o.price] = price_level]
        newIndex == RemoveKey(book.order_index, o.order_id)
    IN IF isBid THEN [book EXCEPT !.bids = newLevels, !.order_index = newIndex]
       ELSE [book EXCEPT !.asks = newLevels, !.order_index = newIndex]

has_order(book, order_id) == order_id \in DOMAIN book.order_index

\* OrderBook.get_best_bid / get_best_ask: the best price, or None
get_best(levels, isBid) ==
    IF DOMAIN levels = {} THEN NoPrice ELSE FirstKey(levels, isBid)

\* OrderBook.calculate_bbo
calculate_bbo(book) ==
    LET best_bid == get_best(book.bids, TRUE)
        best_ask == get_best(book.asks, FALSE)
    IN [best_bid |-> best_bid,
        best_bid_quantity |-> IF best_bid = NoPrice THEN 0
                              ELSE book.bids[best_bid].total_quantity,
        best_ask |-> best_ask,
        best_ask_quantity |-> IF best_ask = NoPrice THEN 0
                              ELSE book.asks[best_ask].total_quantity]

\* OrderBook.get_depth(levels=10): the default number of levels
DepthLevels == 10

\* a depth that lists every level, whatever the number asked for
DepthSide_unbounded(price_levels, isBid, levels) ==
    LET keys == SortedKeys(price_levels, isBid)
    IN [i \in 1..Len(keys) |-> <<keys[i], price_levels[keys[i]].total_quantity>>]

\* OrderBook.get_depth, one side: (price, total_quantity) of the top levels
DepthSide(price_levels, isBid, levels) ==
    LET keys == SortedKeys(price_levels, isBid)
    IN [i \in 1..Min(levels, Len(keys)) |->
           <<keys[i], price_levels[keys[i]].total_quantity>>]

get_depth(book, levels) ==
    [bids |-> DepthSide(book.bids, TRUE, levels),
     asks |-> DepthSide(book.asks, FALSE, levels)]

\* ------------------------------------------------------------ utils/fees.py
\* Fees are multiples of 10^-8 and are held as that many units; fee rates are
\* multiples of 10^-9 and are held as that many units (0.001 is 1000000)
FeeDigits == 8
RateDigits == FeeDigits + 1

\* MatchingEngine.__init__: maker_fee_rate 0.001, taker_fee_rate 0.002
DefaultMakerFeeRate == 1000000
DefaultTakerFeeRate == 2000000

RECURSIVE Pow10(_)
Pow10(n) == IF n = 0 THEN 1 ELSE 10 * Pow10(n - 1)

\* a quantize that drops the digits beyond the last one kept
quantize_truncate(x, digits, places) == x \div Pow10(digits - places)

\* Decimal.quantize of a non-negative x held in units of 10^-digits to `places`
\* fractional digits, under the default context (ROUND_HALF_EVEN); the result
\* is in units of 10^-places
quantize(x, digits, places) ==
    LET unit == Pow10(digits - places)
        q == x \div unit
        r == x % unit
    IN IF 2 * r > unit \/ (2 * r = unit /\ q % 2 = 1) THEN q + 1 ELSE q

\* FeeCalculator.calculate_fees
calculate_fees(fee_calculator, trade_value) ==
    [maker_fee |-> quantize(trade_value * fee_calculator.maker_fee_rate,
                            RateDigits, FeeDigits),
     taker_fee |-> quantize(trade_value * fee_calculator.taker_fee_rate,
                            RateDigits, FeeDigits)]

\* ---------------------------------------------------------------- engine.py
\* The engine state threaded through one call
Engine ==
    [order_books |-> order_books, stop_orders |-> stop_orders, orders |-> orders,
     trade_id_counter |-> trade_id_counter, trades |-> trades, exec |-> exec,
     arrival |-> arrival, scans |-> scans, events |-> events, fees |-> fees]

get_or_create_order_book(e, symbol) ==
    IF symbol \in DOMAIN e.order_books THEN e
    ELSE [e EXCEPT !.order_books = (symbol :> EmptyBook) @@ @]

\* _can_match without the price test
can_match_any(o, price) == TRUE

can_match(o, price) ==
    IF o.order_type = "market" THEN TRUE
    ELSE IF o.side = "buy" THEN o.price >= price
    ELSE o.price <= price

\* Observation of the book at the moment of a fill: the non-empty levels of the
\* side being hit, the queue and the price of the level that is filled, the
\* order being matched, the two remaining quantities before the fill, the
\* pending-stop list of the symbol and, in `after`, the maker, its level and
\* the order index once the fill is done
Observe(order, resting, price_levels, best_price, pending, after) ==
    [live |-> {p \in DOMAIN price_levels : price_levels[p].orders # <<>>},
     queue |-> price_levels[best_price].orders,
     level_price |-> price_levels[best_price].price,
     level_quantity |-> price_levels[best_price].total_quantity,
     taker |-> order.order_id,
     taker_remaining |-> order.remaining_quantity,
     maker_remaining |-> resting.remaining_quantity,
     pending |-> pending,
     after |-> after]

\* a trade priced at the taker's own limit
create_trade_at_taker_price(e, taker, maker, price, quantity) ==
    [trade_id |-> e.trade_id_counter + 1,
     symbol |-> taker.symbol,
     price |-> IF taker.price # NoPrice THEN taker.price ELSE price,
     quantity |-> quantity,
     maker_order_id |-> maker.order_id,
     taker_order_id |-> taker.order_id,
     aggressor_side |-> taker.side,
     maker_fee |-> IF e.fees.enable_fees
                   THEN calculate_fees(e.fees, price * quantity).maker_fee ELSE 0,
     taker_fee |-> IF e.fees.enable_fees
                   THEN calculate_fees(e.fees, price * quantity).taker_fee ELSE 0,
     maker_fee_rate |-> IF e.fees.enable_fees THEN e.fees.maker_fee_rate ELSE 0,
     taker_fee_rate |-> IF e.fees.enable_fees THEN e.fees.taker_fee_rate ELSE 0]

\* _create_trade: the Trade, with the fees and the rates "if enabled"
create_trade(e, taker, maker, price, quantity) ==
    [trade_id |-> e.trade_id_counter + 1,
     symbol |-> taker.symbol,
     price |-> price,
     quantity |-> quantity,
     maker_order_id |-> maker.order_id,
     taker_order_id |-> taker.order_id,
     aggressor_side |-> taker.side,
     maker_fee |-> IF e.fees.enable_fees
                   THEN calculate_fees(e.fees, price * quantity).maker_fee ELSE 0,
     taker_fee |-> IF e.fees.enable_fees
                   THEN calculate_fees(e.fees, price * quantity).taker_fee ELSE 0,
     maker_fee_rate |-> IF e.fees.enable_fees THEN e.fees.maker_fee_rate ELSE 0,
     taker_fee_rate |-> IF e.fees.enable_fees THEN e.fees.taker_fee_rate ELSE 0]

\* a fill sized by the taker alone
fill_quantity_taker(order, resting) == order.remaining_quantity

\* match_order: fill_qty = min(taker remaining, maker remaining)
fill_quantity(order, resting) ==
    Min(order.remaining_quantity, resting.remaining_quantity)

\* a comparison of the two best prices only
bbo_changed_prices_only(old_bbo, new_bbo) ==
    \/ old_bbo.best_bid # new_bbo.best_bid
    \/ old_bbo.best_ask # new_bbo.best_ask

\* _bbo_changed
bbo_changed(old_bbo, new_bbo) ==
    \/ old_bbo.best_bid # new_bbo.best_bid
    \/ old_bbo.best_ask # new_bbo.best_ask
    \/ old_bbo.best_bid_quantity # new_bbo.best_bid_quantity
    \/ old_bbo.best_ask_quantity # new_bbo.best_ask_quantity

\* asyncio.create_task(trade_publisher.publish_trade(trade)); `cause` is the
\* order being handled (observation only)
TradeEvent(trade, cause) ==
    [type |-> "trade", symbol |-> trade.symbol, trade |-> <<trade>>, bbo |-> <<>>,
     cause |-> cause, emitted |-> <<>>]

\* asyncio.create_task(market_data_publisher.publish_bbo_update(symbol, new_bbo))
BboEvent(symbol, new_bbo, cause) ==
    [type |-> "bbo", symbol |-> symbol, trade |-> <<>>, bbo |-> <<new_bbo>>,
     cause |-> cause, emitted |-> <<>>]

\* asyncio.create_task(market_data_publisher.publish_orderbook_update(symbol,
\* order_book)): the task is handed the OrderBook object, not a copy of it;
\* `emitted` records the depth of the book at this moment (observation only)
OrderbookEvent(symbol, cause, book) ==
    [type |-> "orderbook", symbol |-> symbol, trade |-> <<>>, bbo |-> <<>>,
     cause |-> cause, emitted |-> <<get_depth(book, DepthLevels)>>]

\* "Publish BBO update if it changed": the two market data tasks
PublishBbo(e, symbol, old_bbo, cause) ==
    IF bbo_changed(old_bbo, calculate_bbo(e.order_books[symbol]))
    THEN [e EXCEPT !.events =
             @ \o <<BboEvent(symbol, calculate_bbo(e.order_books[symbol]), cause),
                    OrderbookEvent(symbol, cause, e.order_books[symbol])>>]
    ELSE e

RECURSIVE MatchLevel(_, _, _)
\* match_order, inner while: fills at one price level in FIFO order
MatchLevel(e, oid, best_price) ==
    LET order == e.orders[oid]
        book == e.order_books[order.symbol]
        isBuy == order.side = "buy"
        price_levels == IF isBuy THEN book.asks ELSE book.bids
        price_level == price_levels[best_price]
    IN IF ~(order.remaining_quantity > 0 /\ price_level.orders # <<>>) THEN e
       ELSE
        LET rid == price_level.orders[1]
            resting == e.orders[rid]
            fill_qty == fill_quantity(order, resting)
            trade == create_trade(e, order, resting, best_price, fill_qty)
            taker2 == update_status([order EXCEPT !.remaining_quantity = @ - fill_qty])
            maker2 == update_status([resting EXCEPT !.remaining_quantity = @ - fill_qty])
            gone == is_filled(maker2)
            level1 == update_quantity(price_level, resting.remaining_quantity,
                                      maker2.remaining_quantity)
            level2 == [level1 EXCEPT !.orders = IF gone THEN Tail(@) ELSE @]
            index2 == IF gone /\ rid \in DOMAIN book.order_index
                      THEN RemoveKey(book.order_index, rid)
                      ELSE book.order_index
            levels2 == [price_levels EXCEPT ![best_price] = level2]
            book2 == [book EXCEPT !.asks = IF isBuy THEN levels2 ELSE @,
                                  !.bids = IF isBuy THEN @ ELSE levels2,
                                  !.order_index = index2]
        IN MatchLevel([e EXCEPT !.orders = [@ EXCEPT ![oid] = taker2, ![rid] = maker2],
                                !.order_books = [@ EXCEPT ![order.symbol] = book2],
                                !.trade_id_counter = @ + 1,
                                !.trades = Append(@, trade),
                                !.exec = Append(@, Observe(order, resting, price_levels, best_price,
                                                         IF order.symbol \in DOMAIN e.stop_orders
                                                         THEN e.stop_orders[order.symbol]
                                                         ELSE <<>>,
                                                         [queue |-> level2.orders,
                                                          level_quantity |-> level2.total_quantity,
                                                          maker_remaining |-> maker2.remaining_quantity,
                                                          maker_status |-> maker2.status,
                                                          indexed |-> rid \in DOMAIN index2])),
                                !.events = Append(@, TradeEvent(trade, oid))],
                      oid, best_price)

\* match_order: "if price_level.is_empty(): del price_levels[best_price]"
RemoveEmptyLevel(e, symbol, isBuy, best_price) ==
    LET book == e.order_books[symbol]
        levels == IF isBuy THEN book.asks ELSE book.bids
    IN IF levels[best_price].orders # <<>> THEN e
       ELSE IF isBuy
       THEN [e EXCEPT !.order_books[symbol].asks = RemoveKey(levels, best_price)]
       ELSE [e EXCEPT !.order_books[symbol].bids = RemoveKey(levels, best_price)]

RECURSIVE MatchLoop(_, _)
\* match_order, outer while: walk the opposite side best price first
MatchLoop(e, oid) ==
    LET order == e.orders[oid]
        book == e.order_books[order.symbol]
        isBuy == order.side = "buy"
        price_levels == IF isBuy THEN book.asks ELSE book.bids
    IN IF ~(order.remaining_quantity > 0 /\ DOMAIN price_levels # {}) THEN e
       ELSE
        LET best_price == FirstKey(price_levels, ~isBuy)
        IN IF ~can_match(order, best_price) THEN e
           ELSE MatchLoop(RemoveEmptyLevel(MatchLevel(e, oid, best_price),
                                           order.symbol, isBuy, best_price),
                          oid)

\* add_to_book: the order added, then the BBO tasks if the BBO changed
add_to_book(e, oid) ==
    LET o == e.orders[oid]
        n == Cardinality({x \in DOMAIN e.arrival : e.arrival[x] > 0}) + 1
    IN PublishBbo([e EXCEPT !.order_books = [@ EXCEPT ![o.symbol] = BookAddOrder(@, o)],
                            !.arrival = [@ EXCEPT ![oid] = n]],
                  o.symbol, calculate_bbo(e.order_books[o.symbol]), oid)

\* a trigger condition that compares every order the way a stop buy is compared
should_trigger_as_buy(o, last_trade_price) ==
    o.order_type \in StopTypes /\ last_trade_price >= o.stop_price

\* check_stop_orders: the trigger condition of one pending order
should_trigger(o, last_trade_price) ==
    IF o.order_type \in {"stop_loss", "stop_limit"}
    THEN IF o.side = "buy" THEN last_trade_price >= o.stop_price
         ELSE last_trade_price <= o.stop_price
    ELSE IF o.order_type = "take_profit"
    THEN IF o.side = "buy" THEN last_trade_price <= o.stop_price
         ELSE last_trade_price >= o.stop_price
    ELSE FALSE

\* a conversion that puts every take_profit order at its stop price
convert_triggered_at_stop_price(o) ==
    IF o.order_type = "stop_loss"
    THEN [o EXCEPT !.order_type = "market", !.price = NoPrice]
    ELSE IF o.order_type = "stop_limit"
    THEN [o EXCEPT !.order_type = "limit"]
    ELSE IF o.order_type = "take_profit"
    THEN [o EXCEPT !.order_type = "limit", !.price = o.stop_price]
    ELSE o

\* check_stop_orders: conversion of a triggered order
convert_triggered(o) ==
    IF o.order_type = "stop_loss"
    THEN [o EXCEPT !.order_type = "market", !.price = NoPrice]
    ELSE IF o.order_type = "stop_limit"
    THEN [o EXCEPT !.order_type = "limit"]
    ELSE IF o.order_type = "take_profit"
    THEN [o EXCEPT !.order_type = "limit",
                   !.price = IF @ = NoPrice THEN o.stop_price ELSE @]
    ELSE o

RECURSIVE match_order(_, _)
RECURSIVE check_stop_orders(_, _, _)
RECURSIVE process_triggered(_, _)

\* a scan at the taker's own limit price instead of the last trade price
ScanAfterTrades_taker_price(e1, symbol, new_trades) ==
    [e |-> IF new_trades # <<>>
           THEN check_stop_orders(
                    e1, symbol,
                    e1.orders[new_trades[Len(new_trades)].taker_order_id].price)
           ELSE e1,
     trades |-> new_trades]

\* match_order, after the loops: the trades of this order, then the stop scan
\* at the price of the last of them
ScanAfterTrades(e1, symbol, new_trades) ==
    [e |-> IF new_trades # <<>>
           THEN check_stop_orders(e1, symbol, new_trades[Len(new_trades)].price)
           ELSE e1,
     trades |-> new_trades]

\* the local list `trades` of match_order: what the loops appended
TradesOfMatch(e1, before) ==
    SubSeq(e1.trades, before + 1, Len(e1.trades))

MatchThenScan(e1, symbol, before) ==
    ScanAfterTrades(e1, symbol, TradesOfMatch(e1, before))

\* BBO tasks created ahead of the trade tasks of the order
PublishAfterMatch_before_trades(e1, oid, old_bbo, before) ==
    IF Len(e1.trades) > before
    THEN [PublishBbo(e1, e1.orders[oid].symbol, old_bbo, oid) EXCEPT
             !.events = SubSeq(@, 1, Len(e1.events) - (Len(e1.trades) - before))
                        \o SubSeq(@, Len(e1.events) + 1, Len(@))
                        \o SubSeq(@, Len(e1.events) - (Len(e1.trades) - before) + 1,
                                  Len(e1.events))]
    ELSE e1

\* match_order, after the loops: "if trades and self.market_data_publisher"
PublishAfterMatch(e1, oid, old_bbo, before) ==
    IF Len(e1.trades) > before
    THEN PublishBbo(e1, e1.orders[oid].symbol, old_bbo, oid)
    ELSE e1

\* match_order: returns the engine state and the trades of this order
match_order(e, oid) ==
    MatchThenScan(PublishAfterMatch(MatchLoop(e, oid), oid,
                                    calculate_bbo(e.order_books[e.orders[oid].symbol]),
                                    Len(e.trades)),
                  e.orders[oid].symbol, Len(e.trades))

\* What one check_stop_orders call saw and did (observation only)
ScanRecord(e, last_trade_price, pending, triggered_orders) ==
    [price |-> last_trade_price,
     pending |-> [i \in 1..Len(pending) |-> e.orders[pending[i]]],
     triggered |-> triggered_orders]

\* a scan that leaves the triggered orders in the pending list
check_stop_orders_keep_pending(e, symbol, last_trade_price) ==
    IF symbol \notin DOMAIN e.stop_orders
    THEN [e EXCEPT !.scans = Append(@, ScanRecord(e, last_trade_price, <<>>, <<>>))]
    ELSE
     LET Hit(id) == should_trigger(e.orders[id], last_trade_price)
         triggered_orders == SelectSeq(e.stop_orders[symbol], Hit)
     IN process_triggered(
            [e EXCEPT !.orders = [id \in DOMAIN @ |->
                                     IF id \in Range(triggered_orders)
                                     THEN [@[id] EXCEPT !.is_triggered = TRUE]
                                     ELSE @[id]],
                      !.scans = Append(@, ScanRecord(e, last_trade_price,
                                                     e.stop_orders[symbol],
                                                     triggered_orders))],
            triggered_orders)

\* a scan that takes the triggered orders out of the pending list only after
\* they have been matched
check_stop_orders_remove_after(e, symbol, last_trade_price) ==
    IF symbol \notin DOMAIN e.stop_orders
    THEN [e EXCEPT !.scans = Append(@, ScanRecord(e, last_trade_price, <<>>, <<>>))]
    ELSE
     LET Hit(id) == should_trigger(e.orders[id], last_trade_price)
         triggered_orders == SelectSeq(e.stop_orders[symbol], Hit)
         Kept(id) == id \notin Range(triggered_orders)
     IN [process_triggered(
            [e EXCEPT !.orders = [id \in DOMAIN @ |->
                                     IF id \in Range(triggered_orders)
                                     THEN [@[id] EXCEPT !.is_triggered = TRUE]
                                     ELSE @[id]],
                      !.scans = Append(@, ScanRecord(e, last_trade_price,
                                                     e.stop_orders[symbol],
                                                     triggered_orders))],
            triggered_orders)
         EXCEPT !.stop_orders = [@ EXCEPT ![symbol] = SelectSeq(@, Kept)]]

\* a scan that goes through the pending stop orders of every symbol
check_stop_orders_every_symbol(e, symbol, last_trade_price) ==
    LET Hit(id) == should_trigger(e.orders[id], last_trade_price)
        Miss(id) == ~should_trigger(e.orders[id], last_trade_price)
        Pending(s) == IF s \in DOMAIN e.stop_orders THEN e.stop_orders[s] ELSE <<>>
        pending == Pending(symbol) \o Pending(CHOOSE s \in Symbols : s # symbol)
        triggered_orders == SelectSeq(pending, Hit)
    IN process_triggered(
           [e EXCEPT !.stop_orders = [s \in DOMAIN @ |-> SelectSeq(@[s], Miss)],
                     !.orders = [id \in DOMAIN @ |->
                                    IF id \in Range(triggered_orders)
                                    THEN [@[id] EXCEPT !.is_triggered = TRUE]
                                    ELSE @[id]],
                     !.scans = Append(@, ScanRecord(e, last_trade_price, pending,
                                                    triggered_orders))],
           triggered_orders)

\* check_stop_orders, first loop: scan and remove; then process the triggered
check_stop_orders(e, symbol, last_trade_price) ==
    IF symbol \notin DOMAIN e.stop_orders
    THEN [e EXCEPT !.scans = Append(@, ScanRecord(e, last_trade_price, <<>>, <<>>))]
    ELSE
     LET Hit(id) == should_trigger(e.orders[id], last_trade_price)
         Miss(id) == ~should_trigger(e.orders[id], last_trade_price)
         triggered_orders == SelectSeq(e.stop_orders[symbol], Hit)
     IN process_triggered(
            [e EXCEPT !.stop_orders = [@ EXCEPT ![symbol] = SelectSeq(@, Miss)],
                      !.orders = [id \in DOMAIN @ |->
                                     IF id \in Range(triggered_orders)
                                     THEN [@[id] EXCEPT !.is_triggered = TRUE]
                                     ELSE @[id]],
                      !.scans = Append(@, ScanRecord(e, last_trade_price,
                                                     e.stop_orders[symbol],
                                                     triggered_orders))],
            triggered_orders)

\* check_stop_orders, second loop: the order converted, its book looked up
ConvertTriggered(e, tid) ==
    get_or_create_order_book(
        [e EXCEPT !.orders = [@ EXCEPT ![tid] = convert_triggered(@)]],
        e.orders[tid].symbol)

\* check_stop_orders, second loop: "Handle remaining quantity"
RestTriggered(e3, tid) ==
    IF e3.orders[tid].remaining_quantity > 0 /\ can_rest_on_book(e3.orders[tid])
    THEN add_to_book(e3, tid)
    ELSE e3

RECURSIVE process_triggered_no_scan(_, _)
\* a second loop that matches the triggered orders without the stop scan that
\* follows their trades
process_triggered_no_scan(e, triggered_orders) ==
    IF triggered_orders = <<>> THEN e
    ELSE process_triggered_no_scan(
            RestTriggered(
                MatchLoop(ConvertTriggered(e, Head(triggered_orders)),
                          Head(triggered_orders)),
                Head(triggered_orders)),
            Tail(triggered_orders))

\* check_stop_orders, second loop: convert, match, rest the remainder
process_triggered(e, triggered_orders) ==
    IF triggered_orders = <<>> THEN e
    ELSE process_triggered(
            RestTriggered(
                match_order(ConvertTriggered(e, Head(triggered_orders)),
                            Head(triggered_orders)).e,
                Head(triggered_orders)),
            Tail(triggered_orders))

RECURSIVE FokScan_no_limit(_, _, _, _)
\* a scan that counts every level, whatever its price
FokScan_no_limit(o, price_levels, keys, remaining_to_fill) ==
    IF keys = <<>> THEN remaining_to_fill = 0
    ELSE LET fillable == Min(remaining_to_fill, price_levels[Head(keys)].total_quantity)
         IN IF remaining_to_fill - fillable = 0 THEN TRUE
            ELSE FokScan_no_limit(o, price_levels, Tail(keys), remaining_to_fill - fillable)

\* _can_fill_fok
RECURSIVE FokScan(_, _, _, _)
FokScan(o, price_levels, keys, remaining_to_fill) ==
    IF keys = <<>> THEN remaining_to_fill = 0
    ELSE IF ~can_match(o, Head(keys)) THEN remaining_to_fill = 0
    ELSE LET fillable == Min(remaining_to_fill, price_levels[Head(keys)].total_quantity)
         IN IF remaining_to_fill - fillable = 0 THEN TRUE
            ELSE FokScan(o, price_levels, Tail(keys), remaining_to_fill - fillable)

\* a pre-check that looks at the best level only
can_fill_fok_best_level(o, book) ==
    LET isBuy == o.side = "buy"
        price_levels == IF isBuy THEN book.asks ELSE book.bids
    IN /\ DOMAIN price_levels # {}
       /\ can_match(o, FirstKey(price_levels, ~isBuy))

can_fill_fok(o, book) ==
    LET isBuy == o.side = "buy"
        price_levels == IF isBuy THEN book.asks ELSE book.bids
    IN FokScan(o, price_levels, SortedKeys(price_levels, ~isBuy), o.quantity)

\* a finish that reports the order's own status for a rested remainder
FinishOrder_own_status(m, oid) ==
    LET o1 == m.e.orders[oid]
        status1 == IF is_filled(o1) THEN "filled"
                   ELSE IF o1.remaining_quantity < o1.quantity THEN "partial"
                   ELSE "new"
        rests == o1.remaining_quantity > 0 /\ o1.order_type = "limit"
        cancels == o1.remaining_quantity > 0 /\ o1.order_type # "limit"
    IN [e |-> IF rests THEN add_to_book(m.e, oid)
              ELSE IF cancels
              THEN [m.e EXCEPT !.orders = [@ EXCEPT ![oid].status = "cancelled"]]
              ELSE m.e,
        result |-> [op |-> "process_order", order_id |-> oid,
                    status |-> status1,
                    trades |-> m.trades,
                    remaining_quantity |-> o1.remaining_quantity]]

\* a finish that rests the remainder of every priced order, IOC and FOK included
FinishOrder_rest_priced(m, oid) ==
    LET o1 == m.e.orders[oid]
        status1 == IF is_filled(o1) THEN "filled"
                   ELSE IF o1.remaining_quantity < o1.quantity THEN "partial"
                   ELSE "new"
        rests == o1.remaining_quantity > 0 /\ o1.order_type \in PricedTypes
        cancels == o1.remaining_quantity > 0 /\ o1.order_type \notin PricedTypes
    IN [e |-> IF rests THEN add_to_book(m.e, oid)
              ELSE IF cancels
              THEN [m.e EXCEPT !.orders = [@ EXCEPT ![oid].status = "cancelled"]]
              ELSE m.e,
        result |-> [op |-> "process_order", order_id |-> oid,
                    status |-> IF rests
                               THEN (IF m.trades = <<>> THEN "accepted" ELSE "partial")
                               ELSE status1,
                    trades |-> m.trades,
                    remaining_quantity |-> o1.remaining_quantity]]

\* process_order, after match_order: the final status, the remainder rested
\* or cancelled, the OrderResult
FinishOrder(m, oid) ==
    LET o1 == m.e.orders[oid]
        status1 == IF is_filled(o1) THEN "filled"
                   ELSE IF o1.remaining_quantity < o1.quantity THEN "partial"
                   ELSE "new"
        rests == o1.remaining_quantity > 0 /\ o1.order_type = "limit"
        cancels == o1.remaining_quantity > 0 /\ o1.order_type # "limit"
    IN [e |-> IF rests THEN add_to_book(m.e, oid)
              ELSE IF cancels
              THEN [m.e EXCEPT !.orders = [@ EXCEPT ![oid].status = "cancelled"]]
              ELSE m.e,
        result |-> [op |-> "process_order", order_id |-> oid,
                    status |-> IF rests
                               THEN (IF m.trades = <<>> THEN "accepted" ELSE "partial")
                               ELSE status1,
                    trades |-> m.trades,
                    remaining_quantity |-> o1.remaining_quantity]]

\* process_order once the book exists
ProcessInBook(e, oid) ==
    LET order == e.orders[oid]
    IN IF order.order_type \in StopTypes
       THEN [e |-> [e EXCEPT !.stop_orders =
                        IF order.symbol \in DOMAIN @
                        THEN [@ EXCEPT ![order.symbol] = Append(@, oid)]
                        ELSE (order.symbol :> <<oid>>) @@ @],
             result |-> [op |-> "process_order", order_id |-> oid, status |-> "pending",
                         trades |-> <<>>, remaining_quantity |-> 0]]
       ELSE IF order.order_type = "fok"
               /\ ~can_fill_fok(order, e.order_books[order.symbol])
       THEN [e |-> [e EXCEPT !.orders = [@ EXCEPT ![oid].status = "cancelled"]],
             result |-> [op |-> "process_order", order_id |-> oid, status |-> "cancelled",
                         trades |-> <<>>, remaining_quantity |-> order.quantity]]
       ELSE FinishOrder(match_order(e, oid), oid)

\* process_order: returns the engine state and the OrderResult
process_order(e0, oid) ==
    ProcessInBook(get_or_create_order_book(e0, e0.orders[oid].symbol), oid)

\* a cancel that looks the book up with get_or_create_order_book
cancel_order_creates_book(e, order_id, symbol) ==
    IF symbol \notin DOMAIN e.order_books
    THEN [e |-> get_or_create_order_book(e, symbol), ok |-> FALSE]
    ELSE IF ~has_order(e.order_books[symbol], order_id) THEN [e |-> e, ok |-> FALSE]
    ELSE
     LET o == e.orders[order_id]
         book2 == BookRemoveOrder(e.order_books[symbol], o)
     IN [e |-> [e EXCEPT !.order_books = [@ EXCEPT ![symbol] = book2],
                         !.orders = [@ EXCEPT ![order_id].status = "cancelled"]],
         ok |-> TRUE]

\* a cancel that also looks for the order in the pending-stop list
cancel_order_also_pending(e, order_id, symbol) ==
    IF symbol \notin DOMAIN e.order_books THEN [e |-> e, ok |-> FALSE]
    ELSE IF ~has_order(e.order_books[symbol], order_id)
    THEN IF symbol \in DOMAIN e.stop_orders /\ order_id \in Range(e.stop_orders[symbol])
         THEN [e |-> [e EXCEPT !.stop_orders = [@ EXCEPT ![symbol] = RemoveFirst(@, order_id)],
                               !.orders = [@ EXCEPT ![order_id].status = "cancelled"]],
               ok |-> TRUE]
         ELSE [e |-> e, ok |-> FALSE]
    ELSE
     LET o == e.orders[order_id]
         book2 == BookRemoveOrder(e.order_books[symbol], o)
     IN [e |-> [e EXCEPT !.order_books = [@ EXCEPT ![symbol] = book2],
                         !.orders = [@ EXCEPT ![order_id].status = "cancelled"]],
         ok |-> TRUE]

\* a cancel that marks the order cancelled and leaves it in its queue
cancel_order_mark_only(e, order_id, symbol) ==
    IF symbol \notin DOMAIN e.order_books THEN [e |-> e, ok |-> FALSE]
    ELSE IF ~has_order(e.order_books[symbol], order_id) THEN [e |-> e, ok |-> FALSE]
    ELSE [e |-> [e EXCEPT !.orders = [@ EXCEPT ![order_id].status = "cancelled"]],
          ok |-> TRUE]

\* cancel_order: returns the engine state and the boolean returned
cancel_order(e, order_id, symbol) ==
    IF symbol \notin DOMAIN e.order_books THEN [e |-> e, ok |-> FALSE]
    ELSE IF ~has_order(e.order_books[symbol], order_id) THEN [e |-> e, ok |-> FALSE]
    ELSE
     LET o == e.orders[order_id]
         book2 == BookRemoveOrder(e.order_books[symbol], o)
     IN [e |-> PublishBbo([e EXCEPT !.order_books = [@ EXCEPT ![symbol] = book2],
                                    !.orders = [@ EXCEPT ![order_id].status = "cancelled"]],
                          symbol, calculate_bbo(e.order_books[symbol]), order_id),
         ok |-> TRUE]

\* ------------------------------------------------- persistence/snapshot.py
\* Order.timestamp: routes.submit_order reads the clock right after it has
\* drawn the order id, so timestamps grow with the ids; the id stands for the
\* clock reading
timestamp(o) == o.order_id

\* _serialize_order
serialize_order(o) ==
    [order_id |-> o.order_id,
     symbol |-> o.symbol,
     order_type |-> o.order_type,
     side |-> o.side,
     quantity |-> o.quantity,
     price |-> IF o.price # NoPrice THEN o.price ELSE NoPrice,
     timestamp |-> timestamp(o),
     remaining_quantity |-> o.remaining_quantity,
     status |-> o.status,
     stop_price |-> IF o.stop_price # NoPrice THEN o.stop_price ELSE NoPrice,
     is_triggered |-> o.is_triggered]

\* _deserialize_order: the Order constructed from the saved fields
deserialize_order(d) ==
    [order_id |-> d.order_id,
     symbol |-> d.symbol,
     order_type |-> d.order_type,
     side |-> d.side,
     quantity |-> d.quantity,
     price |-> d.price,
     stop_price |-> d.stop_price,
     remaining_quantity |-> d.remaining_quantity,
     status |-> d.status,
     is_triggered |-> d.is_triggered]

\* _serialize_price_levels: the levels in the iteration order of the map, each
\* with its orders in queue order
serialize_price_levels(e, price_levels, isBid) ==
    LET keys == SortedKeys(price_levels, isBid)
    IN [i \in 1..Len(keys) |->
           [price |-> keys[i],
            orders |-> [j \in 1..Len(price_levels[keys[i]].orders) |->
                           serialize_order(e.orders[price_levels[keys[i]].orders[j]])]]]

\* _serialize_order_index
serialize_order_index(e, order_index) ==
    [id \in DOMAIN order_index |->
        [order |-> serialize_order(e.orders[id]), side |-> order_index[id]]]

\* save_engine_state: the state_data written to the file
save_engine_state(e, oid_counter) ==
    [trade_id_counter |-> e.trade_id_counter,
     order_id_counter |-> oid_counter,
     order_books |->
        [s \in DOMAIN e.order_books |->
            [bids |-> serialize_price_levels(e, e.order_books[s].bids, TRUE),
             asks |-> serialize_price_levels(e, e.order_books[s].asks, FALSE),
             order_index |-> serialize_order_index(e, e.order_books[s].order_index)]],
     stop_orders |->
        [s \in DOMAIN e.stop_orders |->
            [i \in 1..Len(e.stop_orders[s]) |->
                serialize_order(e.orders[e.stop_orders[s][i]])]]]

RECURSIVE OrdersOfLevels(_)
\* load_engine_state: the saved orders of one side, level after level
OrdersOfLevels(levels_data) ==
    IF levels_data = <<>> THEN <<>>
    ELSE Head(levels_data).orders \o OrdersOfLevels(Tail(levels_data))

RECURSIVE InsertByTimestamp(_, _)
\* one saved order put behind the orders whose timestamp is not larger
InsertByTimestamp(sorted, order_data) ==
    IF sorted = <<>> THEN <<order_data>>
    ELSE IF Head(sorted).timestamp <= order_data.timestamp
    THEN <<Head(sorted)>> \o InsertByTimestamp(Tail(sorted), order_data)
    ELSE <<order_data>> \o sorted

RECURSIVE SortByTimestamp(_)
\* orders_to_restore.sort(key=lambda o: o.timestamp): a stable sort
SortByTimestamp(list) ==
    IF list = <<>> THEN <<>>
    ELSE InsertByTimestamp(SortByTimestamp(SubSeq(list, 1, Len(list) - 1)),
                           list[Len(list)])

\* load_engine_state: orders_to_restore of one book, bids then asks, sorted
orders_to_restore(book_data) ==
    SortByTimestamp(OrdersOfLevels(book_data.bids) \o OrdersOfLevels(book_data.asks))

RECURSIVE RestoreBook(_, _)
\* load_engine_state: "for order in orders_to_restore: order_book.add_order"
RestoreBook(book, list) ==
    IF list = <<>> THEN book
    ELSE RestoreBook(BookAddOrder(book, deserialize_order(Head(list))), Tail(list))

\* the Order objects a loaded state holds: id -> Order
LoadedOrders(state_data) ==
    LET resting(s) == orders_to_restore(state_data.order_books[s])
        pending(s) == state_data.stop_orders[s]
        saved == UNION ({{resting(s)[i] : i \in 1..Len(resting(s))} :
                            s \in DOMAIN state_data.order_books}
                       \cup {{pending(s)[i] : i \in 1..Len(pending(s))} :
                                s \in DOMAIN state_data.stop_orders})
    IN [id \in {d.order_id : d \in saved} |->
           deserialize_order(CHOOSE d \in saved : d.order_id = id)]

\* load_engine_state: counters, books and pending lists replaced by the saved
\* ones. Orders issued after the save are no longer held by the engine, and
\* their ids will be issued again
load_engine_state(e, state_data) ==
    [e |-> [e EXCEPT
              !.trade_id_counter = state_data.trade_id_counter,
              !.order_books =
                  [s \in DOMAIN state_data.order_books |->
                      RestoreBook(EmptyBook, orders_to_restore(state_data.order_books[s]))],
              !.stop_orders =
                  [s \in DOMAIN state_data.stop_orders |->
                      [i \in 1..Len(state_data.stop_orders[s]) |->
                          state_data.stop_orders[s][i].order_id]],
              !.orders =
                  [id \in (DOMAIN LoadedOrders(state_data))
                             \cup {x \in DOMAIN e.orders : x <= state_data.order_id_counter} |->
                      IF id \in DOMAIN LoadedOrders(state_data)
                      THEN LoadedOrders(state_data)[id] ELSE e.orders[id]],
              !.arrival =
                  [id \in {x \in DOMAIN e.arrival : x <= state_data.order_id_counter} |->
                      e.arrival[id]]],
     order_id_counter |-> state_data.order_id_counter]

\* ------------------------------------------------------------- publishers
RECURSIVE SetToSeq(_)
\* "for websocket in self.connections[symbol].copy()": the iteration order of
\* a set is fixed for a given content; connections are taken in ascending order
SetToSeq(set) ==
    IF set = {} THEN <<>>
    ELSE LET c == CHOOSE x \in set : \A y \in set : x <= y
         IN <<c>> \o SetToSeq(set \ {c})

\* The message a publish task builds when it starts to run: publish_trade
\* sends trade.to_dict(), publish_bbo_update the BBO it was given, and
\* publish_orderbook_update the depth of the OrderBook object as it is now;
\* `event` names the event the task was created for (observation only)
Message(e, i) ==
    [type |-> e.events[i].type,
     symbol |-> e.events[i].symbol,
     trade |-> e.events[i].trade,
     bbo |-> e.events[i].bbo,
     depth |-> IF e.events[i].type = "orderbook"
               THEN <<get_depth(e.order_books[e.events[i].symbol], DepthLevels)>>
               ELSE <<>>,
     event |-> i]

\* WebSocketManager.connect
connect(conns, websocket, symbol) ==
    IF symbol \in DOMAIN conns
    THEN [conns EXCEPT ![symbol] = @ \cup {websocket}]
    ELSE (symbol :> {websocket}) @@ conns

\* WebSocketManager.broadcast up to its first await: no subscribers, nothing
\* to do; otherwise the connections still to be served, in iteration order
broadcast(conns, symbol) ==
    IF symbol \notin DOMAIN conns THEN <<>> ELSE SetToSeq(conns[symbol])

\* "await websocket.send_text(message_json)": the message handed to one
\* connection
send_text(rcv, websocket, message) ==
    [rcv EXCEPT ![websocket] = Append(@, message)]

\* WebSocketManager.disconnect
disconnect(conns, websocket, symbol) ==
    IF symbol \notin DOMAIN conns THEN conns
    ELSE IF conns[symbol] \ {websocket} = {} THEN RemoveKey(conns, symbol)
    ELSE [conns EXCEPT ![symbol] = @ \ {websocket}]

\* The broadcast of a publish task when it enters the loop: its message, the
\* copy of the subscriber set it iterates over, the connections still to be
\* served and the list `disconnected`
NewBroadcast(message, conns) ==
    [message |-> message, copy |-> conns, todo |-> conns, disconnected |-> <<>>]

\* a loop that a raising send brings to its end
after_send_abort(task, websocket, raises) ==
    [task EXCEPT !.todo = IF raises THEN <<>> ELSE Tail(@),
                 !.disconnected = IF raises THEN Append(@, websocket) ELSE @]

\* WebSocketManager.broadcast, one turn of the loop: the send to `websocket`
\* returned or raised; a connection whose send raised is marked for removal
after_send(task, websocket, raises) ==
    [task EXCEPT !.todo = Tail(@),
                 !.disconnected = IF raises THEN Append(@, websocket) ELSE @]

RECURSIVE disconnect_all(_, _, _)
\* WebSocketManager.broadcast, "Remove disconnected clients"
disconnect_all(conns, disconnected, symbol) ==
    IF disconnected = <<>> THEN conns
    ELSE disconnect_all(disconnect(conns, Head(disconnected), symbol),
                        Tail(disconnected), symbol)

\* WebSocketManager.broadcast once the loop is over (the disconnect calls do
\* not suspend)
finish_broadcast(conns, task) ==
    IF task.todo = <<>>
    THEN disconnect_all(conns, task.disconnected, task.message.symbol)
    ELSE conns

\* ------------------------------------------------------------------ inputs
OrderInputs ==
    {in \in [symbol : OrderSymbols,
             order_type : {"market", "limit", "ioc", "fok",
                           "stop_loss", "stop_limit", "take_profit"},
             side : Sides,
             quantity : Quantities,
             price : Prices \cup {NoPrice},
             stop_price : Prices \cup {NoPrice}] :
        /\ post_init(in)
        /\ in.order_type \in {"market", "stop_loss"} => in.price = NoPrice
        /\ in.order_type \notin StopTypes => in.stop_price = NoPrice}

\* ----------------------------------------------------------------- actions
Install(e) ==
    /\ order_books' = e.order_books
    /\ stop_orders' = e.stop_orders
    /\ orders' = e.orders
    /\ trade_id_counter' = e.trade_id_counter
    /\ trades' = e.trades
    /\ exec' = e.exec
    /\ arrival' = e.arrival
    /\ scans' = e.scans
    /\ events' = e.events
    /\ fees' = e.fees

\* Stop orders admitted so far (a stop order keeps its stop_price for life)
StopsAdmitted == Cardinality({id \in DOMAIN orders : orders[id].stop_price # NoPrice})

\* routes.submit_order: the Order is constructed under a fresh order id
Admit(e, oid, in) ==
    [e EXCEPT !.orders = (oid :> NewOrder(oid, in)) @@ @,
              !.arrival = (oid :> 0) @@ @]

\* the state and the OrderResult a process_order call leaves
InstallCall(r) ==
    /\ Install(r.e)
    /\ result' = r.result

\* the state and the boolean a cancel_order call leaves
InstallCancel(r) ==
    /\ Install(r.e)
    /\ result' = [op |-> "cancel_order", order_id |-> 0,
                  status |-> IF r.ok THEN "true" ELSE "false",
                  trades |-> <<>>, remaining_quantity |-> 0]

\* routes.submit_order: generate_order_id, construct the Order, process_order
ProcessOrder(in) ==
    /\ order_id_counter < MaxOrders
    /\ in.order_type \in StopTypes => StopsAdmitted < MaxStops
    /\ InstallCall(process_order(Admit(Engine, order_id_counter + 1, in),
                                 order_id_counter + 1))
    /\ order_id_counter' = order_id_counter + 1
    /\ UNCHANGED <<snapshot, loads>>
    /\ UNCHANGED delivery

\* routes.cancel_order -> MatchingEngine.cancel_order
CancelOrder(order_id, symbol) ==
    /\ InstallCancel(cancel_order(Engine, order_id, symbol))
    /\ UNCHANGED <<order_id_counter, snapshot, loads>>
    /\ UNCHANGED delivery

\* MatchingEngine(): fees are disabled unless the constructor is told otherwise
DefaultFees ==
    [enable_fees |-> FALSE, maker_fee_rate |-> DefaultMakerFeeRate,
     taker_fee_rate |-> DefaultTakerFeeRate]

\* MatchingEngine.__init__, all but the fee configuration
InitEngine ==
    /\ order_books = <<>>
    /\ stop_orders = <<>>
    /\ orders = <<>>
    /\ order_id_counter = 0
    /\ trade_id_counter = 0
    /\ trades = <<>>
    /\ exec = <<>>
    /\ arrival = <<>>
    /\ scans = <<>>
    /\ events = <<>>
    /\ result = [op |-> "none", order_id |-> 0, status |-> "none",
                 trades |-> <<>>, remaining_quantity |-> 0]
    /\ snapshot = <<>>
    /\ loads = 0
    /\ connections = <<>>
    /\ subscribed = <<>>
    /\ tasks = <<>>
    /\ received = <<>>

\* app.py: the engine is constructed as MatchingEngine()
Init == InitEngine /\ fees = DefaultFees

\* Cancel requests: every id issued so far and one unknown id on the traded
\* symbols, and one request naming a symbol without a book
CancelInputs ==
    {<<id, s>> : id \in 1..(order_id_counter + 1), s \in OrderSymbols}
        \cup {<<1, s>> : s \in Symbols \ OrderSymbols}

Next ==
    \/ \E in \in OrderInputs : ProcessOrder(in)
    \/ \E c \in CancelInputs : CancelOrder(c[1], c[2])

Spec == Init /\ [][Next]_vars

\* Limit and stop_loss orders over one more price than Prices: three distinct
\* prices are what the stop-trigger scenario of the specification needs
\* (49400 < 49500 < 50000 are modelled as 1 < 2 < 3)
ScenarioPrices == 1..(MaxPrice + 1)

ScenarioInputs ==
    {in \in [symbol : OrderSymbols,
             order_type : {"limit", "stop_loss"},
             side : Sides,
             quantity : Quantities,
             price : ScenarioPrices \cup {NoPrice},
             stop_price : ScenarioPrices \cup {NoPrice}] :
        /\ post_init(in)
        /\ in.order_type = "stop_loss" => in.price = NoPrice
        /\ in.order_type = "limit" => in.stop_price = NoPrice}

NextScenario == \E in \in ScenarioInputs : ProcessOrder(in)

SpecScenario == Init /\ [][NextScenario]_vars

\* Cancellation in detail: the result of a cancel request also names the order
\* id of the request (routes.cancel_order answers with it), over limit, market
\* and stop_limit orders and every id on every symbol
CancelOrderInputs == {in \in OrderInputs : in.order_type \in {"limit", "market", "stop_limit"}}

CancelRequests == {<<id, s>> : id \in 1..(order_id_counter + 1), s \in Symbols}

\* routes.cancel_order -> MatchingEngine.cancel_order, the request id kept
CancelRequest(order_id, symbol) ==
    /\ Install(cancel_order(Engine, order_id, symbol).e)
    /\ result' = [op |-> "cancel_order", order_id |-> order_id,
                  status |-> IF cancel_order(Engine, order_id, symbol).ok
                             THEN "true" ELSE "false",
                  trades |-> <<>>, remaining_quantity |-> 0]
    /\ UNCHANGED <<order_id_counter, snapshot, loads>>
    /\ UNCHANGED delivery

NextCancel ==
    \/ \E in \in CancelOrderInputs : ProcessOrder(in)
    \/ \E c \in CancelRequests : CancelRequest(c[1], c[2])

SpecCancel == Init /\ [][NextCancel]_vars

\* Persistence: limit orders at price 1 and unit stop_limit orders with limit
\* and stop price 1, with the engine state saved to and loaded from one
\* snapshot file
SnapshotInputs ==
    {in \in OrderInputs :
        \/ in.order_type = "limit" /\ in.price = 1
        \/ in.order_type = "stop_limit" /\ in.price = 1 /\ in.stop_price = 1
                                        /\ in.quantity = 1}

\* MatchingEngine.save_snapshot
SaveSnapshot ==
    /\ snapshot' = <<save_engine_state(Engine, order_id_counter)>>
    /\ result' = [op |-> "save_snapshot", order_id |-> 0, status |-> "saved",
                  trades |-> <<>>, remaining_quantity |-> 0]
    /\ UNCHANGED <<order_books, stop_orders, orders, order_id_counter,
                   trade_id_counter, trades, exec, arrival, scans, events, loads,
                   fees>>
    /\ UNCHANGED delivery

\* MatchingEngine.load_snapshot of the saved file
LoadSnapshot ==
    /\ snapshot # <<>>
    /\ loads < MaxLoads
    /\ Install(load_engine_state(Engine, snapshot[1]).e)
    /\ order_id_counter' = load_engine_state(Engine, snapshot[1]).order_id_counter
    /\ result' = [op |-> "load_snapshot", order_id |-> 0, status |-> "loaded",
                  trades |-> <<>>, remaining_quantity |-> 0]
    /\ loads' = loads + 1
    /\ UNCHANGED snapshot
    /\ UNCHANGED delivery

NextSnapshot ==
    \/ \E in \in SnapshotInputs : ProcessOrder(in)
    \/ SaveSnapshot
    \/ LoadSnapshot

SpecSnapshot == Init /\ [][NextSnapshot]_vars

\* Publishing: limit sells of 1 and limit buys of MaxQty at price 1 (a buy
\* trades with a resting sell and rests its remainder), WebSocket connections
\* to the two endpoints, and the publish tasks run by the event loop
PublishInputs ==
    {in \in OrderInputs :
        /\ in.order_type = "limit" /\ in.price = 1
        /\ in.quantity = IF in.side = "sell" THEN 1 ELSE MaxQty}

StreamKinds == {"market-data", "trades"}

\* api/websocket.py: market_data_websocket / trades_websocket accept a
\* connection and register it with the shared WebSocketManager
Connect(websocket, kind, symbol) ==
    /\ websocket = Cardinality(DOMAIN subscribed) + 1
    /\ websocket <= MaxConnections
    /\ connections' = connect(connections, websocket, symbol)
    /\ subscribed' = (websocket :> [kind |-> kind, symbol |-> symbol]) @@ subscribed
    /\ received' = (websocket :> <<>>) @@ received
    /\ UNCHANGED <<order_books, stop_orders, orders, order_id_counter,
                   trade_id_counter, trades, exec, arrival, scans, events, result,
                   snapshot, loads, tasks, fees>>

Suspended == {i \in DOMAIN tasks : tasks[i].todo # <<>>}

\* The event loop starts the oldest task not yet started (tasks start in the
\* order of their creation): the task builds its message, enters broadcast
\* and makes its first send, which hands the message to the connection or
\* raises; the task then awaits
StartSend(raises) ==
    /\ Len(tasks) < Len(events)
    /\ Cardinality(Suspended) < MaxSuspended
    /\ LET m == Message(Engine, Len(tasks) + 1)
           task == NewBroadcast(m, broadcast(connections, m.symbol))
       IN IF task.todo = <<>>
          THEN /\ ~raises
               /\ tasks' = Append(tasks, task)
               /\ UNCHANGED <<received, connections>>
          ELSE /\ tasks' = Append(tasks, after_send(task, Head(task.todo), raises))
               /\ received' = IF raises THEN received
                              ELSE send_text(received, Head(task.todo), m)
               /\ connections' = finish_broadcast(connections,
                                                  after_send(task, Head(task.todo), raises))
    /\ UNCHANGED <<order_books, stop_orders, orders, order_id_counter,
                   trade_id_counter, trades, exec, arrival, scans, events, result,
                   snapshot, loads, subscribed, fees>>

\* A task suspended in a send is resumed and makes the send to the next
\* connection of its copy of the subscriber set
ResumeSend(i, raises) ==
    /\ i \in Suspended
    /\ received' = IF raises THEN received
                   ELSE send_text(received, Head(tasks[i].todo), tasks[i].message)
    /\ tasks' = [tasks EXCEPT ![i] = after_send(@, Head(tasks[i].todo), raises)]
    /\ connections' = finish_broadcast(connections,
                                       after_send(tasks[i], Head(tasks[i].todo), raises))
    /\ UNCHANGED <<order_books, stop_orders, orders, order_id_counter,
                   trade_id_counter, trades, exec, arrival, scans, events, result,
                   snapshot, loads, subscribed, fees>>

\* the steps of a task none of whose sends raises
StartTask == StartSend(FALSE)

ResumeTask(i) == ResumeSend(i, FALSE)

NextPublish ==
    \/ \E in \in PublishInputs : ProcessOrder(in)
    \/ \E k \in StreamKinds, s \in Symbols :
          Connect(Cardinality(DOMAIN subscribed) + 1, k, s)
    \/ StartTask
    \/ \E i \in DOMAIN tasks : ResumeTask(i)

SpecPublish == Init /\ [][NextPublish]_vars

\* Validation: requests as they arrive at POST /orders. The well-formed ones
\* are the unit orders of OrderInputs; a faulty one is a well-formed buy with
\* one field spoilt: a quantity, price or stop price that is negative or zero.
\* NoPrice also stands for a price or stop price that the request does not
\* carry
WellFormed == {in \in OrderInputs : in.quantity = 1 /\ in.price <= 1 /\ in.stop_price <= 1}

NonPositive == {-1, 0}

RawInputs ==
    WellFormed
        \cup {[b EXCEPT !.quantity = v] : b \in {w \in WellFormed : w.side = "buy"},
                                          v \in NonPositive}
        \cup {[b EXCEPT !.price = v] : b \in {w \in WellFormed : w.side = "buy"},
                                       v \in NonPositive}
        \cup {[b EXCEPT !.stop_price = v] : b \in {w \in WellFormed : w.side = "buy"},
                                            v \in NonPositive}

\* schemas.OrderRequest, the Field constraints: quantity gt=0, and price and
\* stop_price gt=0 when they are given
field_constraints(raw) ==
    /\ raw.quantity > 0
    /\ raw.price # NoPrice => raw.price > 0
    /\ raw.stop_price # NoPrice => raw.stop_price > 0

\* schemas.OrderRequest, validate_price and validate_stop_price: they run on a
\* field the request carries (an explicit null included), not on the default
\* of a field it leaves out
field_validators(raw) ==
    /\ raw.order_type \in {"limit", "ioc", "fok", "stop_limit"} => raw.price # NoPrice
    /\ raw.order_type \in StopTypes => raw.stop_price # NoPrice

\* a rejection that has already looked up the book of the symbol
reject_with_book(e, raw) == get_or_create_order_book(e, raw.symbol)

\* routes.submit_order, a request rejected: the engine is not called
reject(e, raw) == e

\* the request is refused by the schema (HTTP 422) before submit_order runs
RejectRequest(raw) ==
    /\ ~field_constraints(raw) \/ ~field_validators(raw)
    /\ Install(reject(Engine, raw))
    /\ result' = [op |-> "submit_order", order_id |-> 0, status |-> "rejected",
                  trades |-> <<>>, remaining_quantity |-> 0]
    /\ UNCHANGED <<order_id_counter, snapshot, loads>>
    /\ UNCHANGED delivery

\* submit_order draws an order id, the Order constructor raises ValueError and
\* the request is answered with HTTP 400
RejectOrder(raw) ==
    /\ field_constraints(raw)
    /\ ~post_init(raw)
    /\ order_id_counter < MaxOrders
    /\ Install(reject(Engine, raw))
    /\ order_id_counter' = order_id_counter + 1
    /\ result' = [op |-> "submit_order", order_id |-> 0, status |-> "rejected",
                  trades |-> <<>>, remaining_quantity |-> 0]
    /\ UNCHANGED <<snapshot, loads>>
    /\ UNCHANGED delivery

\* the valid requests that are orders of OrderInputs
InOrderInputs(raw) ==
    /\ field_constraints(raw)
    /\ post_init(raw)
    /\ raw.order_type \in {"market", "stop_loss"} => raw.price = NoPrice
    /\ raw.order_type \notin StopTypes => raw.stop_price = NoPrice

\* POST /orders
SubmitOrder(raw) ==
    \/ RejectRequest(raw)
    \/ RejectOrder(raw)
    \/ InOrderInputs(raw) /\ ProcessOrder(raw)

NextValidation == \E raw \in RawInputs : SubmitOrder(raw)

SpecValidation == Init /\ [][NextValidation]_vars

\* Stop-trigger cascades: unit limit orders, stop_loss orders and take_profit
\* orders without a limit price, five orders of which two are stop orders (two
\* resting orders at two prices, two pending stop orders and the order whose
\* trade sets the cascade off)
CascadeInputs ==
    {in \in OrderInputs :
        /\ in.quantity = 1
        /\ in.order_type \in {"limit", "stop_loss", "take_profit"}
        /\ in.order_type = "take_profit" => in.price = NoPrice}

\* routes.submit_order, with the bounds of the cascade behaviours
CascadeOrder(in) ==
    /\ order_id_counter < MaxCascadeOrders
    /\ in.order_type \in StopTypes => StopsAdmitted < MaxCascadeStops
    /\ InstallCall(process_order(Admit(Engine, order_id_counter + 1, in),
                                 order_id_counter + 1))
    /\ order_id_counter' = order_id_counter + 1
    /\ UNCHANGED <<snapshot, loads>>
    /\ UNCHANGED delivery

NextCascade == \E in \in CascadeInputs : CascadeOrder(in)

SpecCascade == Init /\ [][NextCascade]_vars

\* Failing subscribers: the orders of PublishInputs, cancels of the first
\* order, connections to the market-data stream of the traded symbol, and sends that
\* raise
NextSendFailure ==
    \/ \E in \in PublishInputs :
          order_id_counter < MaxBroadcastOrders /\ ProcessOrder(in)
    \/ \E s \in OrderSymbols : CancelOrder(1, s)
    \/ \E s \in OrderSymbols :
          Connect(Cardinality(DOMAIN subscribed) + 1, "market-data", s)
    \/ \E raises \in BOOLEAN : StartSend(raises)
    \/ \E i \in DOMAIN tasks : \E raises \in BOOLEAN : ResumeSend(i, raises)

SpecSendFailure == Init /\ [][NextSendFailure]_vars

\* Two symbols: unit limit and stop_loss orders on either symbol, and cancel
\* requests for every order id on either symbol
SymbolInputs ==
    {in \in [symbol : Symbols,
             order_type : {"limit", "stop_loss"},
             side : Sides,
             quantity : {1},
             price : Prices \cup {NoPrice},
             stop_price : Prices \cup {NoPrice}] :
        /\ post_init(in)
        /\ in.order_type = "stop_loss" => in.price = NoPrice
        /\ in.order_type \notin StopTypes => in.stop_price = NoPrice}

NextSymbols ==
    \/ \E in \in SymbolInputs : ProcessOrder(in)
    \/ \E c \in CancelRequests : CancelRequest(c[1], c[2])

SpecSymbols == Init /\ [][NextSymbols]_vars

\* Fees: an engine constructed with or without fees, the rates among the
\* defaults and rates of a few 10^-9 whose fees need rounding, and limit and
\* market orders
FeeRates == {5, 7, 15, DefaultMakerFeeRate, DefaultTakerFeeRate}

FeeConfigs ==
    {DefaultFees} \cup [enable_fees : {TRUE}, maker_fee_rate : FeeRates,
                        taker_fee_rate : FeeRates]

FeeInputs == {in \in OrderInputs : in.order_type \in {"limit", "market"}}

\* MatchingEngine(enable_fees=..., maker_fee_rate=..., taker_fee_rate=...)
InitFees == InitEngine /\ fees \in FeeConfigs

NextFees == \E in \in FeeInputs : ProcessOrder(in)

SpecFees == InitFees /\ [][NextFees]_vars

\* ------------------------------------------------------------ observations
Book(s) == order_books[s]
BidPrices(s) == DOMAIN Book(s).bids
AskPrices(s) == DOMAIN Book(s).asks
Resting(s) == UNION ({Range(Book(s).bids[p].orders) : p \in BidPrices(s)}
                     \cup {Range(Book(s).asks[p].orders) : p \in AskPrices(s)})
Pending == UNION {Range(stop_orders[s]) : s \in DOMAIN stop_orders}
AllResting == UNION {Resting(s) : s \in DOMAIN order_books}
TradeIdx == 1..Len(trades)

\* C1: for every symbol the highest bid price is strictly less than the lowest
\* ask price whenever both sides of the book are non-empty.
C1_NoCrossedBook ==
    \A s \in DOMAIN order_books :
        \A b \in BidPrices(s), a \in AskPrices(s) : b < a

\* C2: every trade whose taker is a limit, IOC or FOK order (a converted
\* stop_limit or take_profit order included) executes at a price no worse than
\* the taker's limit.
C2_NoTradeThrough ==
    \A i \in TradeIdx :
        LET t == trades[i]
            taker == orders[t.taker_order_id]
        IN taker.order_type \in PricedTypes =>
              IF taker.side = "buy" THEN t.price <= taker.price
              ELSE t.price >= taker.price

C2_Witness ==
    \E i \in TradeIdx :
        LET taker == orders[trades[i].taker_order_id]
        IN /\ taker.order_type = "limit"
           /\ taker.is_triggered
           /\ trades[i].price # taker.price

\* C3: every trade executes at the best opposite-side price present in the
\* book at that moment, so the trade prices of one incoming order are
\* non-decreasing for a buy taker and non-increasing for a sell taker.
C3_BestPriceFirst ==
    /\ \A i \in TradeIdx :
          \A p \in exec[i].live :
              IF trades[i].aggressor_side = "buy" THEN trades[i].price <= p
              ELSE trades[i].price >= p
    /\ \A i, j \in TradeIdx :
          (i < j /\ trades[i].taker_order_id = trades[j].taker_order_id) =>
              IF trades[i].aggressor_side = "buy" THEN trades[i].price <= trades[j].price
              ELSE trades[i].price >= trades[j].price

C3_Witness ==
    \E i, j \in TradeIdx :
        /\ i < j
        /\ trades[i].taker_order_id = trades[j].taker_order_id
        /\ trades[i].price # trades[j].price

\* Quantity of the trades naming an order as maker or taker
RECURSIVE FilledIn(_, _)
FilledIn(ts, id) ==
    IF ts = <<>> THEN 0
    ELSE (IF Head(ts).maker_order_id = id \/ Head(ts).taker_order_id = id
          THEN Head(ts).quantity ELSE 0) + FilledIn(Tail(ts), id)

SameLevel(a, b) ==
    /\ orders[a].symbol = orders[b].symbol
    /\ orders[a].side = orders[b].side
    /\ orders[a].price = orders[b].price

\* C4: of two orders resting at the same price on the same side, the one added
\* to the book earlier is fully filled or cancelled before the later one
\* receives any fill.
C4_FifoWithinLevel ==
    \A i \in TradeIdx :
        LET m == trades[i].maker_order_id
        IN \A a \in DOMAIN orders :
              (a # m /\ SameLevel(a, m) /\ arrival[a] > 0 /\ arrival[a] < arrival[m]) =>
                  /\ a \notin Range(exec[i].queue)
                  /\ \/ FilledIn(SubSeq(trades, 1, i - 1), a) = orders[a].quantity
                     \/ orders[a].status = "cancelled"

C4_Witness ==
    \E i, j \in TradeIdx :
        /\ i < j
        /\ Len(exec[i].queue) >= 2
        /\ trades[i].maker_order_id = exec[i].queue[1]
        /\ trades[j].maker_order_id = exec[i].queue[2]

\* The step is a process_order call
ProcessStep == order_id_counter' = order_id_counter + 1

\* The order a process_order step admits, as it was handed in
Incoming ==
    LET o == orders'[order_id_counter']
    IN [o EXCEPT !.remaining_quantity = o.quantity, !.status = "new"]

\* Quantity resting on the opposite side at prices the order's limit accepts
Fillable(o) ==
    LET acceptable == {r \in AllResting :
                          /\ orders[r].symbol = o.symbol
                          /\ orders[r].side # o.side
                          /\ IF o.side = "buy" THEN orders[r].price <= o.price
                             ELSE orders[r].price >= o.price}
        RECURSIVE Sum(_)
        Sum(S) == IF S = {} THEN 0
                  ELSE LET r == CHOOSE x \in S : TRUE
                       IN orders[r].remaining_quantity + Sum(S \ {r})
    IN Sum(acceptable)

\* The books after get_or_create_order_book(symbol) and nothing else
BooksWith(symbol) ==
    IF symbol \in DOMAIN order_books THEN order_books
    ELSE (symbol :> EmptyBook) @@ order_books

RestingQty(id) == IF id \in AllResting THEN orders[id].remaining_quantity ELSE 0
CancelledQty(id) ==
    IF orders[id].status = "cancelled" THEN orders[id].remaining_quantity ELSE 0

\* C7: for every admitted order that is not waiting in the pending-stop list,
\* quantity = traded quantity + remaining quantity resting on the book
\* + cancelled quantity.
C7_Conservation ==
    \A id \in (DOMAIN orders) \ Pending :
        orders[id].quantity = FilledIn(trades, id) + RestingQty(id) + CancelledQty(id)

Levels(s) ==
    {Book(s).bids[p] : p \in BidPrices(s)} \cup {Book(s).asks[p] : p \in AskPrices(s)}

RemainingOf == [id \in DOMAIN orders |-> orders[id].remaining_quantity]

\* C8: for every price level total_quantity is the sum of the remaining
\* quantities of its queue, and a price is a key of its map iff its queue is
\* non-empty.
C8_LevelQuantity ==
    \A s \in DOMAIN order_books :
        /\ \A p \in BidPrices(s) :
              /\ Book(s).bids[p].orders # <<>>
              /\ Book(s).bids[p].total_quantity = SumSeq(Book(s).bids[p].orders, RemainingOf)
        /\ \A p \in AskPrices(s) :
              /\ Book(s).asks[p].orders # <<>>
              /\ Book(s).asks[p].total_quantity = SumSeq(Book(s).asks[p].orders, RemainingOf)

C8_Witness ==
    \E s \in DOMAIN order_books : \E l \in Levels(s) :
        /\ Len(l.orders) >= 2
        /\ orders[l.orders[1]].status = "partial"

\* Number of places an order takes in the queues of one book
Places(s, id) ==
    LET Count(q) == Cardinality({i \in 1..Len(q) : q[i] = id})
        RECURSIVE Total(_)
        Total(S) == IF S = {} THEN 0
                    ELSE LET l == CHOOSE x \in S : TRUE
                         IN Count(l.orders) + Total(S \ {l})
    IN Total(Levels(s))

\* C9: the ids in a book's order_index are exactly the orders in its
\* price-level queues, and each indexed order is in exactly one queue, that of
\* its own price on the side the index records.
C9_IndexMatchesQueues ==
    \A s \in DOMAIN order_books :
        /\ DOMAIN Book(s).order_index = Resting(s)
        /\ \A id \in DOMAIN Book(s).order_index :
              LET side == Book(s).order_index[id]
                  own == IF side = "buy" THEN Book(s).bids ELSE Book(s).asks
              IN /\ side = orders[id].side
                 /\ orders[id].price \in DOMAIN own
                 /\ id \in Range(own[orders[id].price].orders)
                 /\ Places(s, id) = 1

C9_Witness ==
    /\ result.op = "cancel_order"
    /\ result.status = "true"
    /\ AllResting # {}
    /\ trades # <<>>

\* C10: every order resting on a book or waiting in the pending-stop list
\* has 0 <= remaining_quantity <= quantity, every resting order has
\* remaining_quantity > 0, and no order's remaining_quantity ever increases.
C10_RemainingBounds ==
    /\ [](\A id \in AllResting \cup Pending :
              /\ 0 <= orders[id].remaining_quantity
              /\ orders[id].remaining_quantity <= orders[id].quantity
              /\ id \in AllResting => orders[id].remaining_quantity > 0)
    /\ [][\A id \in DOMAIN orders :
              orders'[id].remaining_quantity <= orders[id].remaining_quantity]_vars

C10_Witness ==
    \E id \in AllResting :
        /\ orders[id].remaining_quantity < orders[id].quantity
        /\ orders[id].is_triggered

\* Orders handed in as market, IOC or FOK orders (a converted stop_loss order
\* is a market order that was triggered)
Immediate ==
    {id \in DOMAIN orders :
        /\ orders[id].order_type \in {"market", "ioc", "fok"}
        /\ ~orders[id].is_triggered}

Indexed == UNION {DOMAIN Book(s).order_index : s \in DOMAIN order_books}

\* C11: after process_order of a market, IOC or FOK order the order is in no
\* price-level queue and not in an order index; when it was not completely
\* filled its status is cancelled and the result reports its remaining
\* quantity.
C11_ImmediateNeverRests ==
    /\ \A id \in Immediate :
          /\ id \notin AllResting
          /\ id \notin Indexed
          /\ orders[id].remaining_quantity > 0 => orders[id].status = "cancelled"
    /\ (result.op = "process_order" /\ result.order_id \in Immediate) =>
          result.remaining_quantity = orders[result.order_id].remaining_quantity

C11_Witness ==
    /\ result.op = "process_order"
    /\ result.order_id \in Immediate
    /\ orders[result.order_id].order_type = "ioc"
    /\ result.trades # <<>>
    /\ result.remaining_quantity > 0
    /\ orders[result.order_id].status = "cancelled"

\* The queue of the level at a price on one side of a symbol's book, empty
\* when the book has no such level
QueueAt(s, side, p) ==
    LET own == IF side = "buy" THEN Book(s).bids ELSE Book(s).asks
    IN IF p \in DOMAIN own THEN own[p].orders ELSE <<>>

OwnQueue(o) == QueueAt(o.symbol, o.side, o.price)

IsLast(q, id) == q # <<>> /\ q[Len(q)] = id

\* C12: after process_order of a limit order with remainder r > 0 the order is
\* the last of the queue of the level at its limit price on its own side, with
\* remaining quantity r, and the status returned is accepted when the order
\* traded nothing and partial when it traded; with r = 0 the status returned is
\* filled and the order rests nowhere.
C12_LimitRemainderRests ==
    [][\A oid \in 1..MaxOrders, s \in OrderSymbols, side \in Sides, p \in Prices :
          (/\ ProcessStep
           /\ oid = order_id_counter'
           /\ Incoming = [Incoming EXCEPT !.order_type = "limit", !.symbol = s,
                                          !.side = side, !.price = p]) =>
             LET filled == FilledIn(trades', oid)
                 r == Incoming.quantity - filled
             IN /\ orders'[oid].remaining_quantity = r
                /\ result'.remaining_quantity = r
                /\ r > 0 =>
                      /\ IsLast(QueueAt(s, side, p), oid)'
                      /\ Places(s, oid)' = 1
                      /\ result'.status = (IF filled = 0 THEN "accepted" ELSE "partial")
                      /\ (result'.trades = <<>>) <=> (filled = 0)
                /\ r = 0 =>
                      /\ result'.status = "filled"
                      /\ (oid \notin AllResting)'
                      /\ (oid \notin Indexed)']_vars

C12_Witness ==
    /\ result.op = "process_order"
    /\ result.status = "partial"
    /\ orders[result.order_id].order_type = "limit"
    /\ ~orders[result.order_id].is_triggered
    /\ Len(OwnQueue(orders[result.order_id])) >= 2
    /\ IsLast(OwnQueue(orders[result.order_id]), result.order_id)

\* The trigger table, by order type and side
TriggerTable(o, p) ==
    \/ o.order_type \in {"stop_loss", "stop_limit"} /\ o.side = "buy" /\ p >= o.stop_price
    \/ o.order_type \in {"stop_loss", "stop_limit"} /\ o.side = "sell" /\ p <= o.stop_price
    \/ o.order_type = "take_profit" /\ o.side = "buy" /\ p <= o.stop_price
    \/ o.order_type = "take_profit" /\ o.side = "sell" /\ p >= o.stop_price

\* The trades of one match_order call are consecutive in `trades` (an order is
\* the taker of one match only): the positions where such a run ends
MatchEnds ==
    {i \in TradeIdx :
        i = Len(trades) \/ trades[i + 1].taker_order_id # trades[i].taker_order_id}

ScanIdx == 1..Len(scans)

\* The scans recorded so far follow the trigger table and the matches
C13_ScansFollowTable ==
    /\ \A k \in ScanIdx :
          /\ \A i \in 1..Len(scans[k].pending) :
                LET o == scans[k].pending[i]
                IN /\ o.order_type \in StopTypes /\ ~o.is_triggered
                   /\ o.order_id \in Range(scans[k].triggered)
                         <=> TriggerTable(o, scans[k].price)
          /\ Range(scans[k].triggered)
                \subseteq {scans[k].pending[i].order_id : i \in 1..Len(scans[k].pending)}
    /\ \A id \in DOMAIN orders :
          /\ orders[id].is_triggered <=> \E k \in ScanIdx : id \in Range(scans[k].triggered)
          /\ orders[id].is_triggered => id \notin Pending
          /\ id \in Pending => orders[id].order_type \in StopTypes
    /\ Len(scans) = Cardinality(MatchEnds)
    /\ \A i \in MatchEnds :
          scans[Cardinality({j \in MatchEnds : j <= i})].price = trades[i].price

ScenarioBook(buy, stop) ==
    /\ DOMAIN order_books = {"BTC-USDT"}
    /\ AllResting = {buy}
    /\ Pending = {stop}
    /\ orders[buy] = [NewOrder(buy, [symbol |-> "BTC-USDT", order_type |-> "limit",
                                     side |-> "buy", quantity |-> 1, price |-> 3,
                                     stop_price |-> NoPrice])
                         EXCEPT !.status = orders[buy].status]
    /\ orders[stop] = NewOrder(stop, [symbol |-> "BTC-USDT", order_type |-> "stop_loss",
                                      side |-> "sell", quantity |-> 1, price |-> NoPrice,
                                      stop_price |-> 2])

\* process_order of a limit sell of 1 at 49400
ScenarioSell ==
    /\ ProcessStep
    /\ Incoming = NewOrder(order_id_counter', [symbol |-> "BTC-USDT",
                                               order_type |-> "limit", side |-> "sell",
                                               quantity |-> 1, price |-> 1,
                                               stop_price |-> NoPrice])

\* exactly one trade, of 1 at 50000, against the resting buy
ScenarioTrade(buy) ==
    /\ Len(trades') = Len(trades) + 1
    /\ trades'[Len(trades')].price = 3
    /\ trades'[Len(trades')].quantity = 1
    /\ trades'[Len(trades')].maker_order_id = buy
    /\ trades'[Len(trades')].taker_order_id = order_id_counter'
    /\ result'.trades = <<trades'[Len(trades')]>>

BookOrEmpty(s) == IF s \in DOMAIN order_books THEN order_books[s] ELSE EmptyBook
Bbo(s) == calculate_bbo(BookOrEmpty(s))
Depth(s) == get_depth(BookOrEmpty(s), DepthLevels)

\* No stop order that has not triggered is in a queue or an index, and no
\* order is pending and in a book at once
C15_StopsOffBook ==
    /\ \A id \in AllResting \cup Indexed :
          ~(orders[id].order_type \in StopTypes /\ ~orders[id].is_triggered)
    /\ Pending \cap (AllResting \cup Indexed) = {}

\* C15: in every reachable state no untriggered stop_loss, stop_limit or
\* take_profit order is in a price-level queue or in an order index and no order
\* is both pending and in a book; admitting a stop order changes neither the
\* BBO nor the depth of any book and produces no trade.
C15_PendingInvisible ==
    /\ []C15_StopsOffBook
    /\ [][(ProcessStep /\ Incoming.order_type \in StopTypes) =>
             /\ \A s \in Symbols : Bbo(s)' = Bbo(s) /\ Depth(s)' = Depth(s)
             /\ trades' = trades
             /\ result'.trades = <<>>
             /\ result'.status = "pending"
             /\ \A oid \in 1..MaxOrders : oid = order_id_counter' => (oid \in Pending)'
             /\ ~orders'[order_id_counter'].is_triggered]_vars

C15_Witness ==
    /\ result.op = "process_order"
    /\ result.status = "pending"
    /\ result.order_id \in Pending
    /\ \E s \in DOMAIN order_books :
          /\ Bbo(s).best_bid # NoPrice
          /\ Len(Depth(s).bids) >= 1
          /\ trades # <<>>

\* The order leaves the pending list in this step
Triggers(id) == id \in Pending /\ (id \notin Pending)'

\* The price a triggered order is matched at, by the type it was admitted with
ConvertedPrice(o) ==
    IF o.order_type = "stop_loss" THEN NoPrice
    ELSE IF o.order_type = "stop_limit" THEN o.price
    ELSE IF o.price = NoPrice THEN o.stop_price ELSE o.price

\* Resting orders of a symbol on the side opposite to `side` that a limit at
\* price p accepts (every price when p is NoPrice)
Crossing(s, side, p) ==
    {m \in Resting(s) :
        /\ orders[m].side # side
        /\ \/ p = NoPrice
           \/ IF side = "buy" THEN orders[m].price <= p ELSE orders[m].price >= p}

C17_TriggeredStopLossEnds ==
    \A id \in DOMAIN orders :
        (orders[id].is_triggered /\ orders[id].order_type = "market") =>
            /\ orders[id].status \in {"filled", "cancelled"}
            /\ id \notin AllResting \cup Indexed
            /\ id \notin Pending

\* The price levels of one side of a symbol's book
SideLevels(s, side) == IF side = "buy" THEN Book(s).bids ELSE Book(s).asks

\* C18: cancel_order on an order resting in the named symbol's book returns
\* True, removes exactly that order from the index and from its level queue
\* (the level is deleted when its queue becomes empty, otherwise its
\* total_quantity drops by the order's remaining quantity), sets the order's
\* status to cancelled, and leaves every other resting order, the order of the
\* queues and the pending-stop lists unchanged.
C18_CancelResting ==
    [][\A id \in 1..MaxOrders, s \in Symbols, side \in Sides, p \in Prices :
          (/\ s \in DOMAIN order_books
           /\ id \in Resting(s)
           /\ orders[id].side = side /\ orders[id].price = p
           /\ CancelRequest(id, s)) =>
             LET level == SideLevels(s, side)[p]
                 other == IF side = "buy" THEN "sell" ELSE "buy"
             IN /\ result'.status = "true"
                /\ Book(s)'.order_index = RemoveKey(Book(s).order_index, id)
                /\ IF level.orders = <<id>>
                   THEN DOMAIN SideLevels(s, side)' = DOMAIN SideLevels(s, side) \ {p}
                   ELSE /\ DOMAIN SideLevels(s, side)' = DOMAIN SideLevels(s, side)
                        /\ SideLevels(s, side)'[p].orders
                              = SelectSeq(level.orders, LAMBDA x : x # id)
                        /\ SideLevels(s, side)'[p].total_quantity
                              = level.total_quantity - orders[id].remaining_quantity
                /\ \A q \in DOMAIN SideLevels(s, side) \ {p} :
                      SideLevels(s, side)'[q] = SideLevels(s, side)[q]
                /\ SideLevels(s, other)' = SideLevels(s, other)
                /\ \A s2 \in DOMAIN order_books \ {s} : order_books'[s2] = order_books[s2]
                /\ DOMAIN order_books' = DOMAIN order_books
                /\ orders' = [orders EXCEPT ![id].status = "cancelled"]
                /\ stop_orders' = stop_orders
                /\ trades' = trades]_vars

C18_Witness ==
    /\ result.op = "cancel_order"
    /\ result.status = "true"
    /\ orders[result.order_id].status = "cancelled"
    /\ orders[result.order_id].remaining_quantity > 0
    /\ result.order_id \notin AllResting \cup Indexed
    /\ \E other \in Range(OwnQueue(orders[result.order_id])) :
          arrival[other] > arrival[result.order_id]
    /\ Pending # {}

\* The order is in a queue of the named symbol's book
RestsIn(id, s) == s \in DOMAIN order_books /\ id \in Resting(s)

\* C19: cancel_order for an id that is not resting in the named symbol's book
\* (an unknown id, a symbol without a book, an order already filled or
\* cancelled) returns False, creates no book, and leaves every book, index,
\* pending-stop list and order unchanged.
C19_CancelNotResting ==
    [][\A id \in 1..(MaxOrders + 1), s \in Symbols :
          (~RestsIn(id, s) /\ CancelRequest(id, s)) =>
              /\ result'.status = "false"
              /\ order_books' = order_books
              /\ stop_orders' = stop_orders
              /\ orders' = orders
              /\ trades' = trades]_vars

C19_Witness ==
    /\ result.op = "cancel_order"
    /\ result.status = "false"
    /\ result.order_id \in DOMAIN orders
    /\ orders[result.order_id].status = "filled"
    /\ AllResting # {}
    /\ \E id \in DOMAIN orders : orders[id].status = "cancelled"

\* The last call was a cancel_order naming this order, pending then and now,
\* and it returned False
CancelRefused(id) ==
    /\ result.op = "cancel_order"
    /\ result.status = "false"
    /\ result.order_id = id
    /\ id \in Pending

\* Every scan that saw the order pending at a price its trigger condition
\* accepts has triggered it
TriggersWhenDue(id) ==
    \A k \in ScanIdx : \A i \in 1..Len(scans[k].pending) :
        (scans[k].pending[i].order_id = id
            /\ TriggerTable(scans[k].pending[i], scans[k].price)) =>
                /\ id \in Range(scans[k].triggered)
                /\ orders[id].is_triggered
                /\ id \notin Pending

\* C20: cancel_order naming a stop order that waits in the pending-stop list
\* returns False and leaves it in the list with its status (and every other
\* field) unchanged; the order still triggers at a later trade whose price
\* meets its trigger condition.
C20_CancelPending ==
    /\ [][\A id \in 1..MaxOrders, s \in Symbols :
             (id \in Pending /\ CancelRequest(id, s)) =>
                 /\ result'.status = "false"
                 /\ stop_orders' = stop_orders
                 /\ orders' = orders
                 /\ order_books' = order_books
                 /\ CancelRefused(id)']_vars
    /\ \A id \in 1..MaxOrders : [](CancelRefused(id) => []TriggersWhenDue(id))

C20_Witness ==
    /\ result.op = "cancel_order"
    /\ result.status = "false"
    /\ result.order_id \in Pending
    /\ orders[result.order_id].status = "new"
    /\ AllResting # {}
    /\ trades # <<>>

\* The FIFO queues of two books agree: same levels, same orders in the same
\* order on both sides
SameQueues(b1, b2) ==
    /\ DOMAIN b1.bids = DOMAIN b2.bids
    /\ DOMAIN b1.asks = DOMAIN b2.asks
    /\ \A p \in DOMAIN b1.bids : b1.bids[p].orders = b2.bids[p].orders
    /\ \A p \in DOMAIN b1.asks : b1.asks[p].orders = b2.asks[p].orders

\* What loading the snapshot of the current state gives
Reloaded == load_engine_state(Engine, save_engine_state(Engine, order_id_counter))

\* C21: loading the snapshot saved from any reachable state gives the same
\* symbols, the same price levels, in every level the same orders with the same
\* remaining quantities in the same FIFO order, the same order_id and trade_id
\* counters and the same pending-stop lists
C21_SnapshotRoundTrip ==
    /\ DOMAIN Reloaded.e.order_books = DOMAIN order_books
    /\ \A s \in DOMAIN order_books : SameQueues(Reloaded.e.order_books[s], order_books[s])
    /\ \A id \in AllResting \cup Pending :
           Reloaded.e.orders[id].remaining_quantity = orders[id].remaining_quantity
    /\ Reloaded.order_id_counter = order_id_counter
    /\ Reloaded.e.trade_id_counter = trade_id_counter
    /\ Reloaded.e.stop_orders = stop_orders

\* C22: no two trades emitted by the engine carry the same trade_id, whatever
\* the sequence of process_order, save_snapshot and load_snapshot calls
C22_TradeIdsUnique ==
    \A i, j \in DOMAIN trades : i # j => trades[i].trade_id # trades[j].trade_id

IsTradeEvent(ev) == ev.type = "trade"

\* The trades announced by the trade events, in the order of the events
AnnouncedTrades ==
    [i \in 1..Len(SelectSeq(events, IsTradeEvent)) |->
        SelectSeq(events, IsTradeEvent)[i].trade[1]]

\* C23: the trade events are emitted in the order the trades executed, and
\* the BBO and depth events caused by an order are emitted only after all the
\* trade events of that order
C23_TradesBeforeBbo ==
    /\ AnnouncedTrades = trades
    /\ \A i, j \in DOMAIN events :
           (/\ events[i].type \in {"bbo", "orderbook"}
            /\ events[j].type = "trade"
            /\ events[j].cause = events[i].cause) => j < i

\* an order with two trades whose BBO and depth events follow them
C23_Witness ==
    \E i \in DOMAIN events :
        /\ i + 3 \in DOMAIN events
        /\ events[i].type = "trade" /\ events[i + 1].type = "trade"
        /\ events[i + 2].type = "bbo" /\ events[i + 3].type = "orderbook"
        /\ \A k \in 1..3 : events[i + k].cause = events[i].cause
        /\ events[i].trade[1].trade_id < events[i + 1].trade[1].trade_id

\* The events whose messages a connection has been handed, in order
EventsReceived(c) == [k \in 1..Len(received[c]) |-> received[c][k].event]

\* C24: every connection receives the messages in the order in which the
\* engine emitted the corresponding events, under every interleaving of the
\* publish tasks at their sends
C24_PerSubscriberOrder ==
    \A c \in DOMAIN received :
        \A k, l \in 1..Len(received[c]) :
            k < l => EventsReceived(c)[k] < EventsReceived(c)[l]

\* C25: a connection to the trades stream of a symbol receives only trade
\* messages of that symbol, a connection to the market-data stream only BBO
\* and depth messages of its symbol
C25_PerStreamKind ==
    \A c \in DOMAIN received :
        \A k \in 1..Len(received[c]) :
            /\ received[c][k].symbol = subscribed[c].symbol
            /\ subscribed[c].kind = "trades" => received[c][k].type = "trade"
            /\ subscribed[c].kind = "market-data" =>
                   received[c][k].type \in {"bbo", "orderbook"}

\* C26: every depth message handed to a subscriber shows the levels of the
\* book as they were when the engine emitted the update
C26_DepthAsEmitted ==
    \A c \in DOMAIN received :
        \A k \in 1..Len(received[c]) :
            received[c][k].type = "orderbook" =>
                received[c][k].depth = events[received[c][k].event].emitted

\* C27: every trade executed during a process_order call, the trades of the
\* stop orders it triggers included, is in the trades list of the OrderResult
\* the call returns
C27_AllTradesReturned ==
    [][ProcessStep =>
          result'.trades = SubSeq(trades', Len(trades) + 1, Len(trades'))]_vars

Terminal == {id \in DOMAIN orders : orders[id].status \in {"filled", "cancelled"}}

\* The trades a step adds
NewTrades == SubSeq(trades', Len(trades) + 1, Len(trades'))

\* a filled or cancelled order is in no queue, order index or pending list
C28_TerminalOffBook ==
    \A id \in Terminal :
        id \notin AllResting /\ id \notin Indexed /\ id \notin Pending

\* C28: once an order is filled or cancelled, its status and remaining
\* quantity never change again, it is in no price-level queue, order index or
\* pending-stop list, and no later trade names it as maker or taker
C28_TerminalIsFinal ==
    /\ []C28_TerminalOffBook
    /\ [][\A id \in Terminal :
              /\ orders'[id].status = orders[id].status
              /\ orders'[id].remaining_quantity = orders[id].remaining_quantity
              /\ \A k \in 1..Len(NewTrades) :
                     /\ NewTrades[k].maker_order_id # id
                     /\ NewTrades[k].taker_order_id # id]_vars

\* a cancelled order and a filled order, and a trade executed after the first
\* of them had become terminal
C28_Witness ==
    /\ order_id_counter = 3
    /\ orders[1].status = "cancelled"
    /\ orders[2].status = "filled"
    /\ trades # <<>>
    /\ trades[Len(trades)].taker_order_id = 3

\* C29: the status returned for a market order is filled when the whole
\* quantity traded, and partial or cancelled when a remainder was cancelled;
\* a market order that finds no liquidity at all is reported as cancelled
C29_MarketStatus ==
    [][(ProcessStep /\ Incoming.order_type = "market") =>
          /\ result'.status \in {"filled", "partial", "cancelled"}
          /\ result'.status = "filled" <=> result'.remaining_quantity = 0
          /\ result'.trades = <<>> => result'.status = "cancelled"]_vars

\* The requests the validation rules of the specification refuse
Invalid(raw) ==
    \/ raw.quantity <= 0
    \/ /\ raw.order_type \in {"limit", "ioc", "fok", "stop_limit"}
       /\ raw.price = NoPrice \/ raw.price <= 0
    \/ /\ raw.order_type \in StopTypes
       /\ raw.stop_price = NoPrice \/ raw.stop_price <= 0

\* C30: an order with a non-positive quantity, or with a missing or
\* non-positive price or stop price that its type requires, is rejected with a
\* validation error before any matching runs, and every book, order index and
\* pending-stop list is left unchanged
C30_InvalidRejected ==
    [][\A raw \in RawInputs :
          (Invalid(raw) /\ SubmitOrder(raw)) =>
              /\ result'.status = "rejected"
              /\ UNCHANGED <<order_books, stop_orders, orders>>
              /\ UNCHANGED <<trades, trade_id_counter, exec, scans, events>>]_vars

\* a request rejected while a book holds a resting order and a stop order is
\* pending
C30_Witness ==
    /\ result.op = "submit_order" /\ result.status = "rejected"
    /\ AllResting # {}
    /\ Pending # {}

\* C31: every trade has the price of the level of the resting maker order, a
\* quantity equal to min(taker remaining, maker remaining) at the moment of
\* execution and greater than zero, the id of the resting order at the head of
\* that level as maker_order_id, the id of the order being matched as
\* taker_order_id and that order's side as aggressor_side.
C31_TradeFields ==
    \A i \in TradeIdx :
        /\ trades[i].price = exec[i].level_price
        /\ trades[i].price = orders[trades[i].maker_order_id].price
        /\ trades[i].quantity = Min(exec[i].taker_remaining, exec[i].maker_remaining)
        /\ trades[i].quantity > 0
        /\ trades[i].maker_order_id = exec[i].queue[1]
        /\ trades[i].taker_order_id = exec[i].taker
        /\ trades[i].taker_order_id \notin Range(exec[i].queue)
        /\ trades[i].aggressor_side = orders[trades[i].taker_order_id].side
        /\ trades[i].aggressor_side # orders[trades[i].maker_order_id].side

\* a fill sized by the maker and a fill sized by the taker, at a price that is
\* not the taker's limit
C31_Witness ==
    \E i, j \in TradeIdx :
        /\ exec[i].taker_remaining > exec[i].maker_remaining
        /\ exec[j].taker_remaining < exec[j].maker_remaining
        /\ orders[trades[j].taker_order_id].price # NoPrice
        /\ orders[trades[j].taker_order_id].price # trades[j].price

\* The numbers of levels a depth is asked for
DepthRequests == 0..(MaxPrice + 1)

\* One side of a depth: at most n pairs, one per non-empty level, from the best
\* price on in strict price order, each with the sum of the remaining
\* quantities of the orders of its level
DepthSideOk(d, price_levels, isBid, n) ==
    /\ Len(d) = Min(n, Cardinality({p \in DOMAIN price_levels :
                                        price_levels[p].orders # <<>>}))
    /\ \A i \in DOMAIN d :
           /\ d[i][1] \in DOMAIN price_levels
           /\ price_levels[d[i][1]].orders # <<>>
           /\ d[i][2] = SumSeq(price_levels[d[i][1]].orders, RemainingOf)
           /\ \A p \in DOMAIN price_levels :
                  (\A j \in 1..i : d[j][1] # p) =>
                      IF isBid THEN p < d[i][1] ELSE p > d[i][1]
    /\ \A i, j \in DOMAIN d :
           i < j => IF isBid THEN d[i][1] > d[j][1] ELSE d[i][1] < d[j][1]

\* C32: get_depth(N) returns for each side at most N (price, aggregate
\* quantity) pairs, one per non-empty price level, bids in strictly descending
\* price order from the best bid, asks in strictly ascending price order from
\* the best ask, each quantity the sum of the remaining quantities of the
\* orders at that price.
C32_DepthShape ==
    \A s \in DOMAIN order_books : \A n \in DepthRequests :
        /\ DepthSideOk(get_depth(Book(s), n).bids, Book(s).bids, TRUE, n)
        /\ DepthSideOk(get_depth(Book(s), n).asks, Book(s).asks, FALSE, n)

\* a side with two levels, cut to one by get_depth(1), the best of them
\* holding a partially filled order
C32_Witness ==
    \E s \in DOMAIN order_books :
        /\ Cardinality(BidPrices(s)) = 2
        /\ Len(get_depth(Book(s), 1).bids) = 1
        /\ Len(get_depth(Book(s), 2).bids) = 2
        /\ \E id \in Resting(s) :
               /\ orders[id].status = "partial"
               /\ orders[id].price = get_depth(Book(s), 1).bids[1][1]

\* The exact fee price * quantity * rate of a trade, in units of 10^-9
ExactFee(t, rate) == t.price * t.quantity * rate

\* fee (in units of 10^-8) is a multiple of 10^-8 nearest to the exact fee
Rounded(fee, exact) ==
    /\ 2 * (10 * fee - exact) <= 10
    /\ 2 * (exact - 10 * fee) <= 10

\* C33: with fees enabled every trade carries maker_fee = price * quantity *
\* maker_fee_rate and taker_fee = price * quantity * taker_fee_rate, each
\* rounded to 8 fractional digits, and the two configured rates; with fees
\* disabled every trade carries fees and rates equal to 0.
C33_TradeFees ==
    \A i \in TradeIdx :
        IF fees.enable_fees
        THEN /\ Rounded(trades[i].maker_fee, ExactFee(trades[i], fees.maker_fee_rate))
             /\ Rounded(trades[i].taker_fee, ExactFee(trades[i], fees.taker_fee_rate))
             /\ trades[i].maker_fee_rate = fees.maker_fee_rate
             /\ trades[i].taker_fee_rate = fees.taker_fee_rate
        ELSE /\ trades[i].maker_fee = 0 /\ trades[i].taker_fee = 0
             /\ trades[i].maker_fee_rate = 0 /\ trades[i].taker_fee_rate = 0

\* fees enabled: a trade whose maker fee is rounded up and whose taker fee is
\* rounded down, and a trade whose fees need no rounding
C33_Witness ==
    /\ fees.enable_fees
    /\ \E i, j \in TradeIdx :
           /\ 10 * trades[i].maker_fee > ExactFee(trades[i], fees.maker_fee_rate)
           /\ 10 * trades[i].taker_fee < ExactFee(trades[i], fees.taker_fee_rate)
           /\ 10 * trades[j].maker_fee = ExactFee(trades[j], fees.maker_fee_rate)
           /\ trades[j].maker_fee > 0

\* The pending-stop list of a symbol after the step
PendingAfter(s) == IF s \in DOMAIN stop_orders' THEN Range(stop_orders'[s]) ELSE {}

\* C34: after a process_order call during which at least one trade executed
\* on symbol S, directly or through triggered stop orders, no order left in the
\* pending-stop list of S satisfies its trigger condition against the price of
\* the last trade executed during the call.
C34_NoDueStopLeft ==
    [][(ProcessStep /\ Len(trades') > Len(trades)) =>
          \A id \in PendingAfter(trades'[Len(trades')].symbol) :
              ~TriggerTable(orders'[id], trades'[Len(trades')].price)]_vars

\* a cascade: a scan triggered an order, a trade of that order was followed by
\* a scan at another price, and that scan triggered a further order
C34_Witness ==
    \E k \in ScanIdx : \E i \in TradeIdx :
        /\ k + 1 \in ScanIdx
        /\ trades[i].taker_order_id \in Range(scans[k].triggered)
        /\ scans[k + 1].price = trades[i].price
        /\ scans[k + 1].price # scans[k].price
        /\ scans[k + 1].triggered # <<>>

\* The scans a step adds
NewScans == SubSeq(scans', Len(scans) + 1, Len(scans'))

RECURSIVE TriggeredIn(_)
\* Number of orders triggered by a sequence of scans
TriggeredIn(ss) ==
    IF ss = <<>> THEN 0 ELSE Len(Head(ss).triggered) + TriggeredIn(Tail(ss))

\* The pending-stop list of a symbol before the step
PendingBefore(s) == IF s \in DOMAIN stop_orders THEN stop_orders[s] ELSE <<>>

\* an order triggers in at most one scan, once
TriggersOnce ==
    \A k, l \in ScanIdx :
        \A i \in DOMAIN scans[k].triggered, j \in DOMAIN scans[l].triggered :
            scans[k].triggered[i] = scans[l].triggered[j] => k = l /\ i = j

\* a triggered order has left the pending list when it is matched: it is not
\* in the list at any of its fills, nor in the list any later scan reads
RemovedBeforeMatched ==
    /\ \A i \in TradeIdx : trades[i].taker_order_id \notin Range(exec[i].pending)
    /\ \A k, l \in ScanIdx :
           k < l => \A i \in DOMAIN scans[l].pending :
                        scans[l].pending[i].order_id \notin Range(scans[k].triggered)

\* the order can be submitted in this state
Admissible(in) ==
    /\ order_id_counter < MaxCascadeOrders
    /\ in.order_type \in StopTypes => StopsAdmitted < MaxCascadeStops

\* the process_order call of the order returns an OrderResult for it
Returns(in) ==
    process_order(Admit(Engine, order_id_counter + 1, in),
                  order_id_counter + 1).result.order_id = order_id_counter + 1

\* C35: every process_order call terminates, its stop-trigger cascade
\* included: each pending stop order triggers at most once, it is removed from
\* the pending list before it is matched, and the number of orders triggered
\* during one call is at most the number of stop orders pending for the symbol
\* when the call started (so the call makes at most one scan more than that).
C35_CascadeTerminates ==
    /\ [](\A in \in CascadeInputs : Admissible(in) => Returns(in))
    /\ []TriggersOnce
    /\ []RemovedBeforeMatched
    /\ [][ProcessStep =>
             /\ TriggeredIn(NewScans) <= Len(PendingBefore(Incoming.symbol))
             /\ Len(NewScans) <= 1 + TriggeredIn(NewScans)
             /\ Cardinality(PendingAfter(Incoming.symbol))
                    = Len(PendingBefore(Incoming.symbol)) - TriggeredIn(NewScans)
                      + (IF result'.status = "pending" THEN 1 ELSE 0)]_vars

\* one call that triggered both pending stop orders in two scans, the first of
\* them matched while the second was still pending
C35_Witness ==
    /\ result.op = "process_order" /\ result.trades # <<>>
    /\ \E k \in ScanIdx : \E i \in TradeIdx :
           /\ k + 1 \in ScanIdx
           /\ Len(scans[k].pending) = MaxCascadeStops
           /\ Len(scans[k].triggered) = 1
           /\ Len(scans[k + 1].triggered) = 1
           /\ trades[i].taker_order_id = scans[k].triggered[1]
           /\ Range(exec[i].pending) = Range(scans[k + 1].triggered)
           /\ Pending = {}

\* C36: when the remaining quantity of the order being matched is smaller than
\* that of the maker at the head of the best level, the trade has the taker's
\* remaining quantity, the maker's remaining_quantity and its level's
\* total_quantity both decrease by exactly that amount, and the maker stays at
\* the head of its queue and in the order index; when the taker's remaining is
\* at least the maker's, the maker is completely filled and removed from both
\* the queue and the index.
C36_PartialMakerStays ==
    \A i \in TradeIdx :
        LET x == exec[i]
            maker == trades[i].maker_order_id
        IN /\ maker = x.queue[1]
           /\ x.after.maker_remaining = x.maker_remaining - trades[i].quantity
           /\ x.after.level_quantity = x.level_quantity - trades[i].quantity
           /\ IF x.taker_remaining < x.maker_remaining
              THEN /\ trades[i].quantity = x.taker_remaining
                   /\ x.after.maker_remaining > 0
                   /\ x.after.maker_status = "partial"
                   /\ x.after.queue = x.queue
                   /\ x.after.indexed
              ELSE /\ trades[i].quantity = x.maker_remaining
                   /\ x.after.maker_remaining = 0
                   /\ x.after.maker_status = "filled"
                   /\ x.after.queue = Tail(x.queue)
                   /\ maker \notin Range(x.after.queue)
                   /\ ~x.after.indexed

\* a maker filled in part by a smaller taker and kept at the head of its
\* queue, then filled completely by a later taker and removed
C36_Witness ==
    \E i, j \in TradeIdx :
        /\ i < j
        /\ trades[i].maker_order_id = trades[j].maker_order_id
        /\ exec[i].taker_remaining < exec[i].maker_remaining
        /\ exec[j].taker_remaining >= exec[j].maker_remaining
        /\ exec[j].queue = exec[i].after.queue
        /\ trades[j].maker_order_id \notin AllResting

\* The depth events emitted for a symbol so far, in order
DepthEvents(s) ==
    LET IsDepthOf(ev) == ev.type = "orderbook" /\ ev.symbol = s
    IN SelectSeq(events, IsDepthOf)

\* The depth snapshot most recently emitted for a symbol; before the first
\* one, the depth of the empty book it was created with
LastDepth(s) ==
    IF DepthEvents(s) = <<>> THEN get_depth(EmptyBook, DepthLevels)
    ELSE DepthEvents(s)[Len(DepthEvents(s))].emitted[1]

\* C37: whenever a process_order or cancel_order call changes the aggregated
\* top-10 depth of a symbol's book, on any of the ten levels, a depth snapshot
\* of the symbol is emitted, so the most recently emitted depth snapshot always
\* equals the current top-10 depth of the book.
C37_DepthPublished ==
    \A s \in DOMAIN order_books : LastDepth(s) = get_depth(Book(s), DepthLevels)

\* The events a step adds
NewEvents == SubSeq(events', Len(events) + 1, Len(events'))

\* The (best_bid, best_bid_quantity, best_ask, best_ask_quantity) tuple of a
\* symbol in a map of books
BboTuple(books, s) ==
    LET bbo == calculate_bbo(IF s \in DOMAIN books THEN books[s] ELSE EmptyBook)
    IN <<bbo.best_bid, bbo.best_bid_quantity, bbo.best_ask, bbo.best_ask_quantity>>

\* The order rests at the best level of its side of the book of s
AtBestLevel(id, s) ==
    /\ RestsIn(id, s)
    /\ orders[id].price = IF orders[id].side = "buy"
                          THEN calculate_bbo(Book(s)).best_bid
                          ELSE calculate_bbo(Book(s)).best_ask

\* C38: with publishers attached, cancel_order emits one BBO event and one
\* depth event exactly when the tuple (best_bid, best_bid_quantity, best_ask,
\* best_ask_quantity) after the removal differs from the tuple before it, and
\* emits nothing when the cancelled order was not at the best level of its
\* side or when the cancel fails.
C38_CancelEvents ==
    [][\A c \in CancelRequests :
          CancelRequest(c[1], c[2]) =>
              /\ IF BboTuple(order_books', c[2]) # BboTuple(order_books, c[2])
                 THEN /\ Len(NewEvents) = 2
                      /\ NewEvents[1].type = "bbo"
                      /\ NewEvents[1].symbol = c[2]
                      /\ NewEvents[1].bbo = <<calculate_bbo(order_books'[c[2]])>>
                      /\ NewEvents[2].type = "orderbook"
                      /\ NewEvents[2].symbol = c[2]
                      /\ NewEvents[2].emitted = <<get_depth(order_books'[c[2]], DepthLevels)>>
                 ELSE NewEvents = <<>>
              /\ result'.status = "false" => NewEvents = <<>>
              /\ ~AtBestLevel(c[1], c[2]) => NewEvents = <<>>
              /\ (result'.status = "true" /\ AtBestLevel(c[1], c[2])) => NewEvents # <<>>]_vars

\* a cancel that left the best price of its side as it was and changed the
\* quantity there, announced by a BBO and a depth event
C38_Witness ==
    /\ result.op = "cancel_order" /\ result.status = "true"
    /\ Len(events) >= 2
    /\ events[Len(events) - 1].type = "bbo"
    /\ events[Len(events) - 1].cause = result.order_id
    /\ events[Len(events)].type = "orderbook"
    /\ orders[result.order_id].status = "cancelled"
    /\ orders[result.order_id].side = "buy"
    /\ events[Len(events) - 1].bbo[1].best_bid = orders[result.order_id].price

\* the connections a broadcast has had its turn with
Served(task) == SubSeq(task.copy, 1, Len(task.copy) - Len(task.todo))

\* the tasks that made a send in the step
Sending == {i \in DOMAIN tasks' : i \notin DOMAIN tasks \/ tasks'[i] # tasks[i]}

\* the list `disconnected` of task i before the step
MarkedBefore(i) == IF i \in DOMAIN tasks THEN tasks[i].disconnected ELSE <<>>

\* every broadcast goes through the whole of its copy of the subscriber set,
\* raising sends or not: each connection it has had its turn with has the
\* message or is marked, and once the broadcast is over the marked
\* connections are in no connection set
BroadcastReachesAll ==
    \A i \in DOMAIN tasks :
        /\ tasks[i].todo = SubSeq(tasks[i].copy,
                                  Len(tasks[i].copy) - Len(tasks[i].todo) + 1,
                                  Len(tasks[i].copy))
        /\ \A c \in Range(Served(tasks[i])) :
              \/ c \in Range(tasks[i].disconnected)
              \/ tasks[i].message \in Range(received[c])
        /\ tasks[i].todo = <<>> =>
              \A c \in Range(tasks[i].disconnected) :
                  \A s \in DOMAIN connections : c \notin connections[s]

\* a step removes from a symbol's connection set only connections whose send
\* raised in a broadcast for that symbol that the step ends
RemovedAlone ==
    \A s \in DOMAIN connections : \A c \in connections[s] :
        (s \notin DOMAIN connections' \/ c \notin connections'[s]) =>
            \E i \in Sending :
                /\ tasks'[i].todo = <<>>
                /\ tasks'[i].message.symbol = s
                /\ c \in Range(tasks'[i].disconnected)

\* a send hands the message to its connection or marks it, and touches no
\* other connection's messages
OneSend ==
    \A i \in Sending :
        LET t == tasks'[i]
        IN IF t.copy = <<>> THEN received' = received
           ELSE LET c == t.copy[Len(t.copy) - Len(t.todo)]
                IN /\ \A d \in DOMAIN received \ {c} : received'[d] = received[d]
                   /\ IF t.disconnected # MarkedBefore(i)
                      THEN /\ t.disconnected = Append(MarkedBefore(i), c)
                           /\ received'[c] = received[c]
                      ELSE received'[c] = Append(received[c], t.message)

\* C39: no subscriber reaches the matching path: a process_order or
\* cancel_order call completes in its own step whatever tasks are suspended in
\* a send, its result and the engine state it leaves are those computed from
\* the engine state and the request alone, and no connection, send or removal
\* changes the engine state or the last result; when a send raises during a
\* broadcast, the broadcast still serves every other connection of its copy of
\* the subscriber set, and the connection whose send raised, and it alone, is
\* removed from the symbol's set.
C39_SendFailureIsolated ==
    /\ []BroadcastReachesAll
    /\ [][/\ RemovedAlone
          /\ OneSend
          /\ delivery' # delivery =>
                /\ Engine' = Engine
                /\ result' = result
                /\ order_id_counter' = order_id_counter
          /\ ProcessStep =>
                /\ delivery' = delivery
                /\ Engine' = process_order(Admit(Engine, order_id_counter + 1, Incoming),
                                           order_id_counter + 1).e
                /\ result' = process_order(Admit(Engine, order_id_counter + 1, Incoming),
                                           order_id_counter + 1).result
          /\ \A s \in OrderSymbols : CancelOrder(1, s) => delivery' = delivery]_vars

\* a broadcast over two connections is over: the send to the first raised and
\* it is gone from the symbol's set, the second has the message and stays; an
\* order was processed while a later task was suspended in a send
C39_Witness ==
    \E i \in DOMAIN tasks :
        /\ Len(tasks[i].copy) = 2
        /\ tasks[i].todo = <<>>
        /\ tasks[i].disconnected = <<tasks[i].copy[1]>>
        /\ tasks[i].message \in Range(received[tasks[i].copy[2]])
        /\ tasks[i].message \notin Range(received[tasks[i].copy[1]])
        /\ tasks[i].message.symbol \in DOMAIN connections
        /\ connections[tasks[i].message.symbol] = {tasks[i].copy[2]}
        /\ result.op = "process_order"
        /\ \E j \in Suspended : events[tasks[j].message.event].cause < result.order_id

\* the book and the pending-stop list of a symbol, absent or present
BookOf(books, s) == IF s \in DOMAIN books THEN <<books[s]>> ELSE <<>>

StopsOf(stops, s) == IF s \in DOMAIN stops THEN <<stops[s]>> ELSE <<>>

\* the step left symbol s alone: its price levels and order index, its
\* pending-stop list and every order of the symbol are as they were, and no
\* order of the symbol was triggered or traded
Untouched(s) ==
    /\ BookOf(order_books', s) = BookOf(order_books, s)
    /\ StopsOf(stop_orders', s) = StopsOf(stop_orders, s)
    /\ \A id \in DOMAIN orders : orders[id].symbol = s => orders'[id] = orders[id]
    /\ \A k \in DOMAIN NewScans : \A i \in DOMAIN NewScans[k].triggered :
          orders[NewScans[k].triggered[i]].symbol # s
    /\ \A k \in (Len(trades) + 1)..Len(trades') : trades'[k].symbol # s

\* C40: a process_order call for an order of symbol A and a cancel_order call
\* with symbol A leave every other symbol B as it was: B's price levels, order
\* index and pending-stop list do not change (a missing book or list is not
\* created), and no stop order pending on B is triggered by a trade on A.
C40_OtherSymbolsUntouched ==
    [][/\ ProcessStep => \A s \in Symbols \ {Incoming.symbol} : Untouched(s)
       /\ \A c \in CancelRequests :
             CancelRequest(c[1], c[2]) => \A s \in Symbols \ {c[2]} : Untouched(s)]_vars

\* a trade on one symbol at a price that a stop order pending on the other
\* symbol would be triggered by, the stop order still pending on a symbol
\* that has a book
C40_Witness ==
    /\ result.op = "process_order"
    /\ result.trades # <<>>
    /\ \E s \in DOMAIN stop_orders : \E i \in DOMAIN stop_orders[s] :
          /\ s # orders[result.order_id].symbol
          /\ should_trigger(orders[stop_orders[s][i]], trades[Len(trades)].price)
          /\ ~orders[stop_orders[s][i]].is_triggered
          /\ s \in DOMAIN order_books

====
